---- MODULE Spec2Model ----
(***************************************************************************)
(* QA workflow of the amendment system: the QAWorkflowValidator of         *)
(* backend/app/qa_workflow.py and the QA update path of                    *)
(* backend/app/crud.py / backend/app/main.py; and its collaboration        *)
(* features: watchers, comments with mentions, reactions and               *)
(* notifications with mail (crud.py, notification_service.py,              *)
(* email_service.py).                                                      *)
(*                                                                         *)
(* Optional values (Python None / a value) are sequences of length at most *)
(* one: None is <<>>, a value v is <<v>>.  Text is a sequence of           *)
(* characters, so that the empty text, whitespace-only text and None are   *)
(* three different values, as they are in Python.                          *)
(***************************************************************************)
EXTENDS Integers, Sequences, FiniteSets, TLC

VARIABLES amendments, columns, response, watchers, comments, mentions,
          reactions, toggled, notifications, qa_history, outbox, inflight,
          defects, executions

\* the tables of the collaboration features and of the audit trail, and the
\* mail handed to the SMTP server
collab ==
    <<watchers, comments, mentions, reactions, toggled, notifications,
      qa_history, outbox>>

\* the calls that have read the database and have not committed yet, and
\* the tables of defects and of test executions
aside == <<inflight, defects, executions>>

vars == <<amendments, columns, response, collab, aside>>

---------------------------------------------------------------------------
(* Bounds of the model *)

MaxTesterId == 1
MaxTime == 1
MaxStrLen == 1
MaxFieldsPerRequest == 1
MaxClock == 2
MaxMentionTextLen == 4
MaxQARows == 1
MaxHistory == 3

---------------------------------------------------------------------------
(* Values *)

None == <<>>
Some(v) == <<v>>

\* models.QAStatus: the six members of the enumeration, by value
QAStatusValues ==
    {"Not Started", "Assigned", "In Testing", "Blocked", "Passed", "Failed"}

\* a string that is not the value of any QAStatus member
NotAStatus == "Deployed"

StatusInputs == QAStatusValues \cup {NotAStatus}

\* employee ids as the schema accepts them (any integer; 0 is falsy)
TesterIds == 0..MaxTesterId

Timestamps == 1..MaxTime

Chars == {" ", "x"}

Texts == UNION {[1..n -> Chars] : n \in 0..MaxStrLen}

Opt(S) == {None} \cup {Some(v) : v \in S}

\* the model follows one amendment, the one with primary key 1; every
\* operation reads and writes only the row whose key it is given
AmendmentIds == {1}

QAFields ==
    {"qa_status", "qa_assigned_id", "qa_assigned_date", "qa_started_date",
     "qa_test_plan_check", "qa_test_release_notes_check", "qa_notes",
     "qa_blocked_reason"}

ChecklistFields == {"qa_test_plan_check", "qa_test_release_notes_check"}

\* rows of the amendments table, restricted to the QA columns
AmendmentRows ==
    [qa_status : StatusInputs,
     qa_assigned_id : Opt(TesterIds),
     qa_assigned_date : Opt(Timestamps),
     qa_started_date : Opt(Timestamps),
     qa_test_plan_check : Opt(BOOLEAN),
     qa_test_release_notes_check : Opt(BOOLEAN),
     qa_notes : Opt(Texts),
     qa_blocked_reason : Opt(Texts)]

\* column defaults of a freshly inserted Amendment
NewAmendment ==
    [qa_status |-> "Not Started",
     qa_assigned_id |-> None,
     qa_assigned_date |-> None,
     qa_started_date |-> None,
     qa_test_plan_check |-> Some(FALSE),
     qa_test_release_notes_check |-> Some(FALSE),
     qa_notes |-> None,
     qa_blocked_reason |-> None]

---------------------------------------------------------------------------
(* Python truthiness and str.strip *)

IsSpace(c) == c = " "

RECURSIVE lstrip(_)
lstrip(s) == IF s # <<>> /\ IsSpace(Head(s)) THEN lstrip(Tail(s)) ELSE s

RECURSIVE rstrip(_)
rstrip(s) ==
    IF s # <<>> /\ IsSpace(s[Len(s)])
    THEN rstrip(SubSeq(s, 1, Len(s) - 1))
    ELSE s

strip(s) == rstrip(lstrip(s))

\* "not x" for an optional integer: None and 0 are falsy
NotInt(x) == x = None \/ x[1] = 0

\* "not x" for an optional datetime: only None is falsy
NotDate(x) == x = None

\* "not x" for an optional bool: None and False are falsy
NotBool(x) == x = None \/ x[1] = FALSE

\* "not x or not x.strip()" for an optional text
NotText(x) == x = None \/ x[1] = <<>> \/ strip(x[1]) = <<>>

---------------------------------------------------------------------------
(* qa_workflow.QAWorkflowValidator *)

Range(f) == {f[i] : i \in DOMAIN f}

\* QAStatus(value): the conversion succeeds exactly on the six values and
\* raises ValueError on anything else
IsQAStatus(v) == v \in QAStatusValues

\* variant: the Blocked -> Failed edge is missing from the table
VALID_TRANSITIONS_NoBlockedToFailed ==
    [s \in QAStatusValues |->
        CASE s = "Not Started" -> <<"Assigned">>
          [] s = "Assigned" -> <<"In Testing">>
          [] s = "In Testing" -> <<"Blocked", "Passed", "Failed">>
          [] s = "Blocked" -> <<"In Testing">>
          [] s = "Passed" -> <<"In Testing">>
          [] s = "Failed" -> <<"In Testing">>]

VALID_TRANSITIONS ==
    [s \in QAStatusValues |->
        CASE s = "Not Started" -> <<"Assigned">>
          [] s = "Assigned" -> <<"In Testing">>
          [] s = "In Testing" -> <<"Blocked", "Passed", "Failed">>
          [] s = "Blocked" -> <<"In Testing", "Failed">>
          [] s = "Passed" -> <<"In Testing">>
          [] s = "Failed" -> <<"In Testing">>]

\* variant: any pair of statuses passes, the table is not consulted
can_transition_IgnoresTable(from_status, to_status) ==
    IsQAStatus(from_status) /\ IsQAStatus(to_status)

can_transition(from_status, to_status) ==
    IF ~IsQAStatus(from_status) \/ ~IsQAStatus(to_status)
    THEN FALSE                                   \* except ValueError
    ELSE IF from_status = to_status
         THEN TRUE
         ELSE to_status \in Range(VALID_TRANSITIONS[from_status])

\* the four blocker messages, in the order the code appends them
BlockerTestPlan == "Test plan must be checked"
BlockerReleaseNotes == "Release notes must be checked"
BlockerStarted == "QA testing must be started before marking as Passed"
BlockerNotes == "QA notes are required (document what was tested and results)"

\* variant: the QA notes are not looked at
check_completion_blockers_NoNotes(amendment) ==
    LET b0 == <<>>
        b1 == IF NotBool(amendment.qa_test_plan_check)
              THEN Append(b0, BlockerTestPlan) ELSE b0
        b2 == IF NotBool(amendment.qa_test_release_notes_check)
              THEN Append(b1, BlockerReleaseNotes) ELSE b1
        b3 == IF NotDate(amendment.qa_started_date)
              THEN Append(b2, BlockerStarted) ELSE b2
    IN  b3

\* variant: the check stops at the first missing requirement
check_completion_blockers_FirstOnly(amendment) ==
    IF NotBool(amendment.qa_test_plan_check)
    THEN <<BlockerTestPlan>>
    ELSE IF NotBool(amendment.qa_test_release_notes_check)
    THEN <<BlockerReleaseNotes>>
    ELSE IF NotDate(amendment.qa_started_date)
    THEN <<BlockerStarted>>
    ELSE IF NotText(amendment.qa_notes)
    THEN <<BlockerNotes>>
    ELSE <<>>

check_completion_blockers(amendment) ==
    LET b0 == <<>>
        b1 == IF NotBool(amendment.qa_test_plan_check)
              THEN Append(b0, BlockerTestPlan) ELSE b0
        b2 == IF NotBool(amendment.qa_test_release_notes_check)
              THEN Append(b1, BlockerReleaseNotes) ELSE b1
        b3 == IF NotDate(amendment.qa_started_date)
              THEN Append(b2, BlockerStarted) ELSE b2
        b4 == IF NotText(amendment.qa_notes)
              THEN Append(b3, BlockerNotes) ELSE b3
    IN  b4

can_complete_qa(amendment) ==
    LET blockers == check_completion_blockers(amendment)
    IN  [can_complete |-> Len(blockers) = 0, blockers |-> blockers]

\* variant: entering Blocked has no gate
validate_transition_requirements_NoBlockedGate(amendment, new_status) ==
    IF ~IsQAStatus(new_status)
    THEN [raised |-> TRUE, error |-> None]
    ELSE [raised |-> FALSE,
          error |->
            IF new_status = "Assigned" /\ NotInt(amendment.qa_assigned_id)
            THEN Some(<<"Cannot assign QA: No QA tester assigned. Please assign a QA tester first.">>)
            ELSE IF new_status = "In Testing" /\ NotInt(amendment.qa_assigned_id)
            THEN Some(<<"Cannot start testing: No QA tester assigned.">>)
            ELSE IF new_status = "In Testing" /\ NotDate(amendment.qa_assigned_date)
            THEN Some(<<"Cannot start testing: QA assignment date not set.">>)
            ELSE IF new_status = "Passed"
                    /\ check_completion_blockers(amendment) # <<>>
            THEN Some(<<"Cannot mark as Passed. The following requirements must be met:">>
                      \o check_completion_blockers(amendment))
            ELSE None]

\* Result of _validate_transition_requirements: the error message (None when
\* every gate is met), or raised when QAStatus(new_status) raises ValueError.
\* A message is the sequence of its parts.
validate_transition_requirements(amendment, new_status) ==
    IF ~IsQAStatus(new_status)
    THEN [raised |-> TRUE, error |-> None]
    ELSE [raised |-> FALSE,
          error |->
            IF new_status = "Assigned" /\ NotInt(amendment.qa_assigned_id)
            THEN Some(<<"Cannot assign QA: No QA tester assigned. Please assign a QA tester first.">>)
            ELSE IF new_status = "In Testing" /\ NotInt(amendment.qa_assigned_id)
            THEN Some(<<"Cannot start testing: No QA tester assigned.">>)
            ELSE IF new_status = "In Testing" /\ NotDate(amendment.qa_assigned_date)
            THEN Some(<<"Cannot start testing: QA assignment date not set.">>)
            ELSE IF new_status = "Passed"
                    /\ check_completion_blockers(amendment) # <<>>
            THEN Some(<<"Cannot mark as Passed. The following requirements must be met:">>
                      \o check_completion_blockers(amendment))
            ELSE IF new_status = "Blocked" /\ NotText(amendment.qa_blocked_reason)
            THEN Some(<<"Cannot mark as Blocked: Please provide a reason for blocking.">>)
            ELSE None]

\* "if error:" on an optional message
IsError(e) == e # None /\ e[1] # <<>>

\* variant: the table is not consulted before the gates
validate_transition_NoTableCheck(amendment, new_status) ==
    LET r == validate_transition_requirements(amendment, new_status) IN
    IF r.raised
    THEN [raised |-> TRUE, is_valid |-> FALSE, error |-> None]
    ELSE IF IsError(r.error)
         THEN [raised |-> FALSE, is_valid |-> FALSE, error |-> r.error]
         ELSE [raised |-> FALSE, is_valid |-> TRUE, error |-> None]

validate_transition(amendment, new_status) ==
    LET current_status == amendment.qa_status IN
    IF ~can_transition(current_status, new_status)
    THEN [raised |-> FALSE, is_valid |-> FALSE,
          error |-> Some(<<"Invalid status transition", current_status,
                           new_status,
                           "Follow the workflow: Not Started -> Assigned -> In Testing -> Passed/Failed/Blocked">>)]
    ELSE LET r == validate_transition_requirements(amendment, new_status) IN
         IF r.raised
         THEN [raised |-> TRUE, is_valid |-> FALSE, error |-> None]
         ELSE IF IsError(r.error)
              THEN [raised |-> FALSE, is_valid |-> FALSE, error |-> r.error]
              ELSE [raised |-> FALSE, is_valid |-> TRUE, error |-> None]

\* variant: unassigning is refused only while In Testing
validate_qa_assignment_OnlyInTesting(amendment, qa_assigned_id) ==
    IF qa_assigned_id = None /\ amendment.qa_status \in {"In Testing"}
    THEN [is_valid |-> FALSE,
          error |-> Some(<<"Cannot unassign QA: Amendment is in status",
                           amendment.qa_status>>)]
    ELSE [is_valid |-> TRUE, error |-> None]

validate_qa_assignment(amendment, qa_assigned_id) ==
    IF qa_assigned_id = None /\ amendment.qa_status \in {"In Testing", "Passed"}
    THEN [is_valid |-> FALSE,
          error |-> Some(<<"Cannot unassign QA: Amendment is in status",
                           amendment.qa_status>>)]
    ELSE [is_valid |-> TRUE, error |-> None]

validate_checklist_update(amendment, field_name, new_value) ==
    IF amendment.qa_status = "Passed" /\ ~new_value
    THEN [is_valid |-> FALSE,
          error |-> Some(<<"Cannot uncheck", field_name,
                           "QA has already passed">>)]
    ELSE [is_valid |-> TRUE, error |-> None]

---------------------------------------------------------------------------
(* The QA update path: crud.create_amendment, crud.update_amendment_qa and *)
(* the PATCH /api/amendments/{id}/qa endpoint                              *)

NoResponse == [op |-> "none"]

\* the sets of fields one request may carry (model_dump(exclude_unset=True))
FieldSets == {F \in SUBSET QAFields : Cardinality(F) <= MaxFieldsPerRequest}

\* AmendmentQAUpdate restricted to the fields in F: every field is Optional,
\* so a field that is present may also be an explicit null
QAUpdates(F) ==
    [qa_status :
        IF "qa_status" \in F THEN Opt(StatusInputs) ELSE {None},
     qa_assigned_id :
        IF "qa_assigned_id" \in F THEN Opt(TesterIds) ELSE {None},
     qa_assigned_date :
        IF "qa_assigned_date" \in F THEN Opt(Timestamps) ELSE {None},
     qa_started_date :
        IF "qa_started_date" \in F THEN Opt(Timestamps) ELSE {None},
     qa_test_plan_check :
        IF "qa_test_plan_check" \in F THEN Opt(BOOLEAN) ELSE {None},
     qa_test_release_notes_check :
        IF "qa_test_release_notes_check" \in F THEN Opt(BOOLEAN) ELSE {None},
     qa_notes :
        IF "qa_notes" \in F THEN Opt(Texts) ELSE {None},
     qa_blocked_reason :
        IF "qa_blocked_reason" \in F THEN Opt(Texts) ELSE {None}]

\* "for field, value in update_data.items(): setattr(db_amendment, field, value)"
\* qa_status is the one column of these that is NOT NULL; the row keeps the
\* plain string
ApplyUpdates_WithoutExcludeUnset(row, F, data) ==
    [f \in QAFields |->
        IF f \in F
        THEN IF f = "qa_status" THEN data[f][1] ELSE data[f]
        ELSE IF f = "qa_status" THEN row[f] ELSE None]

ApplyUpdates(row, F, data) ==
    [f \in QAFields |->
        IF f \in F
        THEN IF f = "qa_status" THEN data[f][1] ELSE data[f]
        ELSE row[f]]

\* db.commit() fails on the NOT NULL constraint of qa_status
CommitFails(F, data) == "qa_status" \in F /\ data.qa_status = None

\* the instants the database clock (func.now()) can read
Clock == 1..MaxClock

\* the user names a request can carry in modified_by
UserNames == {"qa"}

\* the modified_by of a request body: not set, or set to a name or to null
Unset == None

BodyModifiedBy == {Unset} \cup {Some(v) : v \in Opt(UserNames)}

\* the columns of the amendment row outside the eight QA fields: a content
\* column, the due date of the QA work (nullable, without default) and the
\* audit columns modified_by and modified_on (default=func.now(),
\* onupdate=func.now())
NewColumns(now) ==
    [description |-> <<"x">>, qa_due_date |-> None, modified_by |-> None,
     modified_on |-> now]

\* the modified_by entry of update_data, None when the dict has no such key:
\* the body's value when the body sets the field (an explicit null included),
\* overridden by the query parameter when that is truthy
ModifiedByUpdate(modified_by, body) ==
    IF modified_by # None THEN Some(modified_by)
    ELSE body

\* crud.update_amendment_qa: the tables after the call.  The UPDATE is sent
\* only when an attribute holds a new value, and then the database sets
\* modified_on
update_amendment_qa(rows, cols, amendment_id, F, data, modified_by, body, now) ==
    IF amendment_id \notin DOMAIN rows
    THEN [found |-> FALSE, raised |-> FALSE, rows |-> rows, columns |-> cols]
    ELSE IF CommitFails(F, data)
    THEN \* db.rollback(); raise ValueError
         [found |-> TRUE, raised |-> TRUE, rows |-> rows, columns |-> cols]
    ELSE LET row == ApplyUpdates(rows[amendment_id], F, data)
             given == ModifiedByUpdate(modified_by, body)
             by == IF given = None THEN cols[amendment_id].modified_by
                                   ELSE given[1]
             dirty == \/ row # rows[amendment_id]
                      \/ by # cols[amendment_id].modified_by
         IN  [found |-> TRUE, raised |-> FALSE,
              rows |-> [rows EXCEPT ![amendment_id] = row],
              columns |->
                  [cols EXCEPT
                      ![amendment_id] =
                          [@ EXCEPT !.modified_by = by,
                                    !.modified_on = IF dirty THEN now
                                                             ELSE @]]]

\* the answer of the endpoint: 404 when crud returns None, 500 when it raises
StatusOf(r) == IF ~r.found THEN 404 ELSE IF r.raised THEN 500 ELSE 200

CreateAmendment ==
    /\ 1 \notin DOMAIN amendments
    /\ amendments' = (1 :> NewAmendment)
    /\ columns' = (1 :> NewColumns(1))
    /\ response' = [op |-> "create_amendment", amendment_id |-> 1,
                    status |-> 201]
    /\ UNCHANGED <<collab, aside>>

\* the whole handler: it writes the amendment row and nothing else (no
\* history entry, no notification, no mail)
UpdateAmendmentQA(amendment_id, F, data, modified_by, body, now) ==
    LET r == update_amendment_qa(amendments, columns, amendment_id, F, data,
                                 modified_by, body, now)
    IN  /\ UNCHANGED <<collab, aside>>
        /\ amendments' = r.rows
        /\ columns' = r.columns
        /\ response' = [op |-> "update_amendment_qa",
                        amendment_id |-> amendment_id,
                        status |-> StatusOf(r)]

\* the same handler, answering with the names of the fields of its request
PatchAmendmentQA(amendment_id, F, data, modified_by, body, now) ==
    LET r == update_amendment_qa(amendments, columns, amendment_id, F, data,
                                 modified_by, body, now)
        given == ModifiedByUpdate(modified_by, body)
    IN  /\ UNCHANGED <<collab, aside>>
        /\ amendments' = r.rows
        /\ columns' = r.columns
        /\ response' = [op |-> "patch_amendment_qa",
                        amendment_id |-> amendment_id,
                        fields |-> F \cup (IF given = None
                                           THEN {} ELSE {"modified_by"}),
                        status |-> StatusOf(r)]

\* every table is empty after the schema is created
NoRows ==
    /\ watchers = <<>>
    /\ comments = <<>>
    /\ mentions = <<>>
    /\ reactions = {}
    /\ toggled = {}
    /\ notifications = <<>>
    /\ qa_history = <<>>
    /\ outbox = <<>>

\* the requests that can be served at the same time, and the state of one
\* that is not being served
Calls == {1, 2}

\* no call is in flight
NoCalls ==
    /\ inflight = [c \in Calls |-> [pc |-> "idle"]]
    /\ defects = <<>>
    /\ executions = <<>>

Init ==
    /\ amendments = <<>>
    /\ columns = <<>>
    /\ response = NoResponse
    /\ NoRows
    /\ NoCalls

Next ==
    \/ CreateAmendment
    \/ \E id \in AmendmentIds : \E F \in FieldSets : \E data \in QAUpdates(F) :
          UpdateAmendmentQA(id, F, data, None, Unset, 1)

Spec == Init /\ [][Next]_vars

---------------------------------------------------------------------------
(* The validator applied to an arbitrary stored amendment.  The validator  *)
(* is a set of static methods that keep nothing between calls, so each     *)
(* behaviour makes one call on the amendment it starts with.               *)

CanTransition(id, to_status) ==
    /\ response = NoResponse
    /\ id \in DOMAIN amendments
    /\ response' = [op |-> "can_transition", amendment_id |-> id,
                    from_status |-> amendments[id].qa_status,
                    to_status |-> to_status,
                    result |-> can_transition(amendments[id].qa_status,
                                              to_status)]
    /\ UNCHANGED <<amendments, columns, collab, aside>>

ValidateTransition(id, new_status) ==
    /\ response = NoResponse
    /\ id \in DOMAIN amendments
    /\ response' = [op |-> "validate_transition", amendment_id |-> id,
                    new_status |-> new_status,
                    result |-> validate_transition(amendments[id], new_status)]
    /\ UNCHANGED <<amendments, columns, collab, aside>>

CanCompleteQA(id) ==
    /\ response = NoResponse
    /\ id \in DOMAIN amendments
    /\ response' = [op |-> "can_complete_qa", amendment_id |-> id,
                    result |-> can_complete_qa(amendments[id])]
    /\ UNCHANGED <<amendments, columns, collab, aside>>

ValidateQAAssignment(id, qa_assigned_id) ==
    /\ response = NoResponse
    /\ id \in DOMAIN amendments
    /\ response' = [op |-> "validate_qa_assignment", amendment_id |-> id,
                    qa_assigned_id |-> qa_assigned_id,
                    result |-> validate_qa_assignment(amendments[id],
                                                      qa_assigned_id)]
    /\ UNCHANGED <<amendments, columns, collab, aside>>

ValidateChecklistUpdate(id, field_name, new_value) ==
    /\ response = NoResponse
    /\ id \in DOMAIN amendments
    /\ response' = [op |-> "validate_checklist_update", amendment_id |-> id,
                    field_name |-> field_name, new_value |-> new_value,
                    result |-> validate_checklist_update(amendments[id],
                                                         field_name, new_value)]
    /\ UNCHANGED <<amendments, columns, collab, aside>>

InitValidator ==
    /\ amendments \in [AmendmentIds -> AmendmentRows]
    /\ columns = [id \in AmendmentIds |-> NewColumns(1)]
    /\ response = NoResponse
    /\ NoRows
    /\ NoCalls

NextValidator ==
    \/ \E id \in AmendmentIds : \E to \in StatusInputs : CanTransition(id, to)
    \/ \E id \in AmendmentIds : \E to \in StatusInputs :
          ValidateTransition(id, to)
    \/ \E id \in AmendmentIds : CanCompleteQA(id)
    \/ \E id \in AmendmentIds : \E t \in Opt(TesterIds) :
          ValidateQAAssignment(id, t)
    \/ \E id \in AmendmentIds : \E f \in ChecklistFields : \E v \in BOOLEAN :
          ValidateChecklistUpdate(id, f, v)

SpecValidator == InitValidator /\ [][NextValidator]_vars

---------------------------------------------------------------------------
(* The workflow as the specification states it, written independently of   *)
(* the validator                                                           *)

StatedTable ==
    {<<"Not Started", "Assigned">>,
     <<"Assigned", "In Testing">>,
     <<"In Testing", "Blocked">>, <<"In Testing", "Passed">>,
     <<"In Testing", "Failed">>,
     <<"Blocked", "In Testing">>, <<"Blocked", "Failed">>,
     <<"Passed", "In Testing">>,
     <<"Failed", "In Testing">>}

\* a text that is set and has a character other than whitespace
HasVisibleText(x) == x # None /\ \E i \in DOMAIN x[1] : x[1][i] # " "

TestPlanChecked(row) == row.qa_test_plan_check = Some(TRUE)
ReleaseNotesChecked(row) == row.qa_test_release_notes_check = Some(TRUE)
TestingStarted(row) == row.qa_started_date # None
NotesWritten(row) == HasVisibleText(row.qa_notes)

PassedPrerequisites(row) ==
    /\ TestPlanChecked(row)
    /\ ReleaseNotesChecked(row)
    /\ TestingStarted(row)
    /\ NotesWritten(row)

Occurrences(seq, m) == Cardinality({i \in DOMAIN seq : seq[i] = m})

\* one entry for each unmet prerequisite, none for a met one, nothing else
ListsExactlyTheUnmet(blockers, row) ==
    /\ Occurrences(blockers, BlockerTestPlan)
          = IF TestPlanChecked(row) THEN 0 ELSE 1
    /\ Occurrences(blockers, BlockerReleaseNotes)
          = IF ReleaseNotesChecked(row) THEN 0 ELSE 1
    /\ Occurrences(blockers, BlockerStarted)
          = IF TestingStarted(row) THEN 0 ELSE 1
    /\ Occurrences(blockers, BlockerNotes)
          = IF NotesWritten(row) THEN 0 ELSE 1
    /\ \A i \in DOMAIN blockers :
          blockers[i] \in {BlockerTestPlan, BlockerReleaseNotes,
                           BlockerStarted, BlockerNotes}

\* the row the last call was made on
Called == amendments[response.amendment_id]

---------------------------------------------------------------------------
(* C1: for every pair (from, to), can_transition(from, to) is true exactly *)
(* when both are among the six statuses and from = to or to is listed for  *)
(* from in the transition table; it is false for a value outside the six.  *)
C1_CanTransitionIsTheTable ==
    response.op = "can_transition" =>
        (response.result <=>
            /\ response.from_status \in QAStatusValues
            /\ response.to_status \in QAStatusValues
            /\ \/ response.from_status = response.to_status
               \/ <<response.from_status, response.to_status>> \in StatedTable)

C1_Witness ==
    /\ response.op = "can_transition"
    /\ response.from_status = "Blocked"
    /\ response.to_status = "Failed"
    /\ response.result

(* C2: when (current, requested) is neither in the table nor a             *)
(* self-transition, validate_transition returns (not ok, non-empty reason) *)
(* as a value, without raising, and the stored qa_status is the same after *)
(* the call as before.                                                     *)
C2_RejectedTransitionIsAValue ==
    [][response'.op = "validate_transition" =>
          LET id == response'.amendment_id
              to == response'.new_status
          IN  (/\ amendments[id].qa_status # to
               /\ <<amendments[id].qa_status, to>> \notin StatedTable)
              => /\ ~response'.result.raised
                 /\ ~response'.result.is_valid
                 /\ response'.result.error # None
                 /\ response'.result.error[1] # <<>>
                 /\ amendments'[id].qa_status = amendments[id].qa_status]_vars

C2_Witness ==
    /\ response.op = "validate_transition"
    /\ response.new_status = NotAStatus
    /\ Called.qa_status = "In Testing"
    /\ ~response.result.is_valid
    /\ ~response.result.raised
    /\ response.result.error # None

(* C3: a self-transition always succeeds: for each of the six statuses s   *)
(* and every combination of the amendment's attributes, validate_transition*)
(* from s to s returns ok.                                                 *)
C3_SelfTransitionSucceeds ==
    (/\ response.op = "validate_transition"
     /\ response.new_status \in QAStatusValues
     /\ Called.qa_status = response.new_status)
    => response.result.is_valid

(* C4: from In Testing, validate_transition to Passed returns ok exactly   *)
(* when the test-plan flag is true, the release-notes flag is true, the    *)
(* testing-start timestamp is set and the QA notes are non-empty after     *)
(* trimming, all at once.                                                  *)
C4_PassedIffAllFourPrerequisites ==
    (/\ response.op = "validate_transition"
     /\ response.new_status = "Passed"
     /\ Called.qa_status = "In Testing")
    => /\ ~response.result.raised
       /\ response.result.is_valid <=> PassedPrerequisites(Called)

C4_Witness ==
    /\ response.op = "validate_transition"
    /\ response.new_status = "Passed"
    /\ Called.qa_status = "In Testing"
    /\ PassedPrerequisites(Called)
    /\ response.result.is_valid

(* C5: every missing prerequisite of Passed is reported, not only the      *)
(* first: the blocker list of can_complete_qa, and the one embedded in the *)
(* reason of a rejected validate_transition to Passed, has exactly one     *)
(* entry per unmet prerequisite and none for a met one.                    *)
C5_EveryBlockerIsReported ==
    /\ response.op = "can_complete_qa" =>
          /\ ListsExactlyTheUnmet(response.result.blockers, Called)
          /\ response.result.can_complete <=> PassedPrerequisites(Called)
    /\ (/\ response.op = "validate_transition"
        /\ response.new_status = "Passed"
        /\ Called.qa_status = "In Testing"
        /\ ~response.result.is_valid)
       => /\ response.result.error # None
          /\ Len(response.result.error[1]) >= 2
          /\ ListsExactlyTheUnmet(Tail(response.result.error[1]), Called)

C5_Witness ==
    /\ response.op = "can_complete_qa"
    /\ Len(response.result.blockers) = 4
    /\ ~response.result.can_complete

(* C6: for a pair in the transition table validate_transition applies the  *)
(* entry gate of the requested status: Assigned only with a tester set,    *)
(* In Testing only with a tester and an assignment timestamp set, Blocked  *)
(* only with a blocked-reason that is non-empty after trimming; an unmet   *)
(* gate yields not-ok with a non-empty reason; Failed has no gate.         *)
C6_EntryGates ==
    (/\ response.op = "validate_transition"
     /\ <<Called.qa_status, response.new_status>> \in StatedTable)
    => LET gateMet ==
               CASE response.new_status = "Assigned" ->
                      Called.qa_assigned_id # None
                 [] response.new_status = "In Testing" ->
                      /\ Called.qa_assigned_id # None
                      /\ Called.qa_assigned_date # None
                 [] response.new_status = "Blocked" ->
                      HasVisibleText(Called.qa_blocked_reason)
                 [] response.new_status = "Passed" ->
                      PassedPrerequisites(Called)
                 [] response.new_status = "Failed" -> TRUE
       IN  /\ ~response.result.raised
           /\ response.result.is_valid => gateMet
           /\ ~gateMet => /\ ~response.result.is_valid
                          /\ response.result.error # None
                          /\ response.result.error[1] # <<>>
           /\ response.new_status = "Failed" => response.result.is_valid

C6_Witness ==
    /\ response.op = "validate_transition"
    /\ Called.qa_status = "In Testing"
    /\ response.new_status = "Blocked"
    /\ Called.qa_blocked_reason # None
    /\ Called.qa_blocked_reason[1] # <<>>
    /\ ~HasVisibleText(Called.qa_blocked_reason)
    /\ ~response.result.is_valid

(* C7: validate_qa_assignment rejects unassigning the tester, with a       *)
(* non-empty reason, exactly when qa_status is In Testing or Passed; it    *)
(* accepts unassigning in every other status and accepts every non-null    *)
(* tester in every status.                                                 *)
C7_UnassignRefusedInTestingOrPassed ==
    response.op = "validate_qa_assignment" =>
        /\ ~response.result.is_valid <=>
              /\ response.qa_assigned_id = None
              /\ Called.qa_status \in {"In Testing", "Passed"}
        /\ ~response.result.is_valid =>
              /\ response.result.error # None
              /\ response.result.error[1] # <<>>

C7_Witness ==
    /\ response.op = "validate_qa_assignment"
    /\ response.qa_assigned_id = None
    /\ Called.qa_status = "Passed"
    /\ ~response.result.is_valid

(* C8: once the stored qa_status is Passed, no edit made through the QA    *)
(* update operation changes a checklist flag from true to false.           *)
C8_NoUncheckAfterPassed ==
    [][\A id \in DOMAIN amendments : \A f \in ChecklistFields :
          (/\ amendments[id].qa_status = "Passed"
           /\ amendments'[id].qa_status = "Passed"
           /\ amendments[id][f] = Some(TRUE))
          => amendments'[id][f] # Some(FALSE)]_vars

(* C9: an amendment is created with qa_status Not Started and every change *)
(* of its stored qa_status from s to t made by the QA update operation is  *)
(* a pair validate_transition accepts for the amendment at that moment     *)
(* (with the attributes it had before the request, or with those the       *)
(* request carries).                                                       *)
C9_OnlyValidatedTransitions ==
    [][\A id \in AmendmentIds :
          /\ (id \notin DOMAIN amendments /\ id \in DOMAIN amendments')
                => amendments'[id].qa_status = "Not Started"
          /\ (/\ id \in DOMAIN amendments
              /\ amendments'[id].qa_status # amendments[id].qa_status)
             => LET t == amendments'[id].qa_status
                    before == amendments[id]
                    after == [amendments'[id] EXCEPT
                                 !.qa_status = before.qa_status]
                IN  \/ validate_transition(before, t).is_valid
                    \/ validate_transition(after, t).is_valid]_vars

(* C10: an amendment whose stored qa_status has just become Passed has     *)
(* both checklist flags true, non-empty QA notes and a recorded            *)
(* testing-start timestamp.                                                *)
C10_PassedOnlyWithPrerequisites ==
    [][\A id \in DOMAIN amendments :
          (/\ amendments[id].qa_status # "Passed"
           /\ amendments'[id].qa_status = "Passed")
          => PassedPrerequisites(amendments'[id])]_vars

(* C11: in every reachable state of the create / QA update path, each      *)
(* amendment's stored qa_status is one of the six defined values.          *)
C11_StoredStatusIsOneOfSix ==
    \A id \in DOMAIN amendments : IsQAStatus(amendments[id].qa_status)

---------------------------------------------------------------------------
(* Watchers: crud.add_watcher, crud.remove_watcher and the three           *)
(* /api/amendments/{id}/watchers endpoints of main.py                      *)

\* the model follows two collaborators, the employees with keys 1 and 2;
\* both exist and either may be the authenticated user of a request
EmployeeIds == {1, 2}

\* the watch_reason a client sends (the schema takes any string; "Manual" is
\* its default)
ReasonInputs == {"Manual"}

\* AmendmentWatcher with the column defaults of models.py
NewWatcher(watcher_id, amendment_id, employee_id, reason) ==
    [watcher_id |-> watcher_id,
     amendment_id |-> amendment_id,
     employee_id |-> employee_id,
     watch_reason |-> reason,
     is_watching |-> TRUE,
     notify_comments |-> TRUE,
     notify_status_changes |-> TRUE,
     notify_mentions |-> TRUE]

\* the key an autoincrement primary key gives the next inserted row
NextId(table, key) ==
    IF table = <<>> THEN 1
    ELSE 1 + CHOOSE m \in {table[i][key] : i \in DOMAIN table} :
                \A i \in DOMAIN table : table[i][key] <= m

\* positions of the rows of a (amendment, employee) pair, in table order
WatcherRowsOf(table, amendment_id, employee_id) ==
    {i \in DOMAIN table : /\ table[i].amendment_id = amendment_id
                          /\ table[i].employee_id = employee_id}

\* Query.first(): the first matching row, None when there is none
First(table, S) ==
    IF S = {} THEN None
    ELSE Some(table[CHOOSE i \in S : \A j \in S : i <= j])

FirstIndex(S) == CHOOSE i \in S : \A j \in S : i <= j

\* the table after the call and the row the call returns
add_watcher_OverwritesReason(table, amendment_id, employee_id, reason) ==
    LET S == WatcherRowsOf(table, amendment_id, employee_id)
    IN  IF S # {}
        THEN LET i == FirstIndex(S)
                 after == [table EXCEPT ![i].is_watching = TRUE,
                                        ![i].watch_reason = reason]
             IN  [table |-> after, watcher |-> after[i]]
        ELSE LET watcher == NewWatcher(NextId(table, "watcher_id"),
                                       amendment_id, employee_id, reason)
             IN  [table |-> Append(table, watcher), watcher |-> watcher]

add_watcher(table, amendment_id, employee_id, reason) ==
    LET S == WatcherRowsOf(table, amendment_id, employee_id)
    IN  IF S # {}
        THEN LET i == FirstIndex(S)
                 after == IF ~table[i].is_watching
                          THEN [table EXCEPT ![i].is_watching = TRUE]
                          ELSE table
             IN  [table |-> after, watcher |-> after[i]]
        ELSE LET watcher == NewWatcher(NextId(table, "watcher_id"),
                                       amendment_id, employee_id, reason)
             IN  [table |-> Append(table, watcher), watcher |-> watcher]

remove_watcher_DeletesRow(table, amendment_id, employee_id) ==
    LET S == WatcherRowsOf(table, amendment_id, employee_id)
    IN  IF S # {}
        THEN SelectSeq(table, LAMBDA w : w # table[FirstIndex(S)])
        ELSE table

remove_watcher(table, amendment_id, employee_id) ==
    LET S == WatcherRowsOf(table, amendment_id, employee_id)
    IN  IF S # {}
        THEN [table EXCEPT ![FirstIndex(S)].is_watching = FALSE]
        ELSE table

\* the active watchers of an amendment, in table order
get_watchers(table, amendment_id) ==
    SelectSeq(table, LAMBDA w : /\ w.amendment_id = amendment_id
                                /\ w.is_watching)

WatcherFlags ==
    {"is_watching", "notify_comments", "notify_status_changes",
     "notify_mentions"}

\* AmendmentWatcherUpdate: every field is Optional and None means "leave it".
\* The fields are applied one by one and independently, so a request that
\* sets several flags leaves the row as the requests that set them one at a
\* time do: the requests of the model are the empty one and those that set
\* a single flag.
WatcherUpdates ==
    {u \in [WatcherFlags -> Opt(BOOLEAN)] :
        \A f, g \in WatcherFlags : (u[f] # None /\ u[g] # None) => f = g}

\* POST /api/amendments/{id}/watchers; the notify_* fields of the request
\* body are not read
AddWatcher(amendment_id, employee_id, reason) ==
    /\ UNCHANGED <<amendments, columns, aside, comments, mentions, reactions,
                   toggled, notifications, qa_history, outbox>>
    /\ IF amendment_id \notin DOMAIN amendments
       THEN /\ response' = [op |-> "add_watcher",
                            amendment_id |-> amendment_id,
                            employee_id |-> employee_id, status |-> 404]
            /\ UNCHANGED watchers
       ELSE LET r == add_watcher(watchers, amendment_id, employee_id, reason)
            IN  /\ watchers' = r.table
                /\ response' =
                      [op |-> "add_watcher", amendment_id |-> amendment_id,
                       employee_id |-> employee_id, status |-> 200,
                       watch_reason |-> reason,
                       existing |-> First(watchers,
                                          WatcherRowsOf(watchers, amendment_id,
                                                        employee_id)),
                       watcher |-> r.watcher]

\* DELETE /api/amendments/{id}/watchers
RemoveWatcher(amendment_id, employee_id) ==
    /\ UNCHANGED <<amendments, columns, aside, comments, mentions, reactions,
                   toggled, notifications, qa_history, outbox>>
    /\ watchers' = remove_watcher(watchers, amendment_id, employee_id)
    /\ response' = [op |-> "remove_watcher", amendment_id |-> amendment_id,
                    employee_id |-> employee_id, status |-> 204,
                    existing |-> First(watchers,
                                       WatcherRowsOf(watchers, amendment_id,
                                                     employee_id))]

\* PATCH /api/amendments/{id}/watchers
UpdateWatcherPreferences(amendment_id, employee_id, update_data) ==
    /\ UNCHANGED <<amendments, columns, aside, comments, mentions, reactions,
                   toggled, notifications, qa_history, outbox>>
    /\ LET S == WatcherRowsOf(watchers, amendment_id, employee_id)
       IN  IF S = {}
           THEN /\ response' = [op |-> "update_watcher_preferences",
                                amendment_id |-> amendment_id,
                                employee_id |-> employee_id, status |-> 404]
                /\ UNCHANGED watchers
           ELSE LET i == FirstIndex(S)
                    row == [f \in DOMAIN watchers[i] |->
                              IF f \in WatcherFlags /\ update_data[f] # None
                              THEN update_data[f][1]
                              ELSE watchers[i][f]]
                IN  /\ watchers' = [watchers EXCEPT ![i] = row]
                    /\ response' = [op |-> "update_watcher_preferences",
                                    amendment_id |-> amendment_id,
                                    employee_id |-> employee_id,
                                    status |-> 200]

---------------------------------------------------------------------------
(* Comments: crud.parse_mentions, crud.create_comment_mentions,            *)
(* crud.notify_watchers, crud.create_notification,                         *)
(* crud.create_qa_comment_enhanced and POST /api/amendments/{id}/qa-comments *)

MaxComments == 1
MaxCommentLen == 2

\* comment text: "@" starts a mention, "a" and "b" are word characters
CommentChars == {"@", "a", "b"}

CommentTexts == UNION {[1..n -> CommentChars] : n \in 0..MaxCommentLen}

\* employee_name of the two collaborators
EmployeeName(employee_id) == IF employee_id = 1 THEN <<"a">> ELSE <<"b">>

\* the mapped attributes of models.Employee
EmployeeColumns ==
    {"employee_id", "employee_name", "initials", "email", "windows_login",
     "is_active", "role", "password_hash", "last_login", "created_on",
     "modified_on"}

IsWordChar(c) == c \in {"a", "b"}

\* the end of the run of word characters that starts at position i
RECURSIVE WordEnd(_, _)
WordEnd(text, i) ==
    IF i < Len(text) /\ IsWordChar(text[i + 1])
    THEN WordEnd(text, i + 1)
    ELSE i

\* re.findall(r'@(\w+|"[^"]+")', text) from position i on: the texts of the
\* model hold no double quote, so only the \w+ alternative can match
RECURSIVE findall_mentions(_, _)
findall_mentions(text, i) ==
    IF i > Len(text) THEN <<>>
    ELSE IF text[i] = "@" /\ i < Len(text) /\ IsWordChar(text[i + 1])
    THEN <<SubSeq(text, i + 1, WordEnd(text, i + 1))>>
            \o findall_mentions(text, WordEnd(text, i + 1) + 1)
    ELSE findall_mentions(text, i + 1)

\* With no mention in the text the loop body never runs and the list is
\* empty.  For the first mention the loop body builds the filter
\* "Employee.username == mention", and the Employee class has no attribute
\* username: the attribute access raises AttributeError.
parse_mentions(comment_text) ==
    [raised |-> /\ findall_mentions(comment_text, 1) # <<>>
                /\ "username" \notin EmployeeColumns,
     employee_ids |-> <<>>]

\* the CommentMention rows of one comment, one per listed id
MentionRows(table, comment_id, mentioned_employee_ids, mentioned_by) ==
    [i \in 1..Len(mentioned_employee_ids) |->
        [mention_id |-> NextId(table, "mention_id") + i - 1,
         comment_id |-> comment_id,
         mentioned_employee_id |-> mentioned_employee_ids[i],
         mentioned_by_employee_id |-> mentioned_by]]

\* "for employee_id in mentioned_employee_ids: add_watcher(..., 'Mentioned')"
RECURSIVE AddWatchers(_, _, _, _)
AddWatchers(table, amendment_id, employee_ids, reason) ==
    IF employee_ids = <<>> THEN table
    ELSE AddWatchers(add_watcher(table, amendment_id, Head(employee_ids),
                                 reason).table,
                     amendment_id, Tail(employee_ids), reason)

\* the parameters of crud.create_notification, all of them required
CreateNotificationParams == {"db", "notification"}

\* the arguments notify_watchers passes to it
NotifyWatchersCallArgs ==
    {"db", "employee_id", "notification_type", "title", "message",
     "amendment_id"}

\* a Python call binds iff every required parameter gets an argument and no
\* argument is left over; otherwise it raises TypeError
BindsTo(params, args) == args = params

\* QANotification as create_notification inserts it
NewNotification(table, employee_id, notification_type, amendment_id, is_email_sent) ==
    [notification_id |-> NextId(table, "notification_id"),
     employee_id |-> employee_id,
     notification_type |-> notification_type,
     amendment_id |-> amendment_id,
     is_email_sent |-> is_email_sent,
     is_read |-> FALSE,
     read_on |-> None]

\* add, commit, refresh: the table after the call
create_notification(table, employee_id, notification_type, amendment_id, is_email_sent) ==
    Append(table, NewNotification(table, employee_id, notification_type,
                                  amendment_id, is_email_sent))

\* the per-event preference of a watcher
WantsEvent(w, event_type) ==
    /\ event_type = "comment" => w.notify_comments
    /\ event_type = "status_change" => w.notify_status_changes
    /\ event_type = "mention" => w.notify_mentions

\* the watchers the loop of notify_watchers does not skip
Recipients(table, amendment_id, event_type, exclude_employee_id) ==
    SelectSeq(get_watchers(table, amendment_id),
              LAMBDA w : /\ ~(/\ exclude_employee_id # None
                              /\ exclude_employee_id[1] # 0
                              /\ w.employee_id = exclude_employee_id[1])
                         /\ WantsEvent(w, event_type))

RECURSIVE CreateNotifications(_, _, _)
CreateNotifications(table, recipients, amendment_id) ==
    IF recipients = <<>> THEN table
    ELSE CreateNotifications(
            create_notification(table, Head(recipients).employee_id,
                                "Amendment Update", amendment_id, FALSE),
            Tail(recipients), amendment_id)

\* the notifications table after the call, and whether the call raised: the
\* first watcher that is not skipped reaches the create_notification call
notify_watchers(table, notes, amendment_id, event_type, exclude_employee_id) ==
    LET recipients == Recipients(table, amendment_id, event_type,
                                 exclude_employee_id)
    IN  IF recipients = <<>>
        THEN [raised |-> FALSE, notifications |-> notes]
        ELSE IF ~BindsTo(CreateNotificationParams, NotifyWatchersCallArgs)
        THEN [raised |-> TRUE, notifications |-> notes]
        ELSE [raised |-> FALSE,
              notifications |->
                  CreateNotifications(notes, recipients, amendment_id)]

\* The endpoint and create_qa_comment_enhanced, without a parent comment.
\* Every step commits on its own and nothing catches an exception or rolls
\* back, so what is committed before a step raises stays.
CreateQAComment(amendment_id, employee_id, comment_text) ==
    /\ Len(comments) < MaxComments
    /\ UNCHANGED <<amendments, columns, aside, reactions, toggled, qa_history,
                   outbox>>
    /\ IF amendment_id \notin DOMAIN amendments
       THEN /\ response' = [op |-> "create_qa_comment",
                            amendment_id |-> amendment_id,
                            employee_id |-> employee_id,
                            mentions |-> findall_mentions(comment_text, 1), status |-> 404]
            /\ UNCHANGED <<comments, mentions, watchers, notifications>>
       ELSE LET comment == [comment_id |-> NextId(comments, "comment_id"),
                            amendment_id |-> amendment_id,
                            employee_id |-> employee_id]
                parsed == parse_mentions(comment_text)
                ids == parsed.employee_ids
                mentioned == IF ids # <<>>
                             THEN AddWatchers(watchers, amendment_id, ids,
                                              "Mentioned")
                             ELSE watchers
                participated == add_watcher(mentioned, amendment_id,
                                            employee_id, "Participated").table
                notified == notify_watchers(participated, notifications,
                                            amendment_id, "comment",
                                            Some(employee_id))
            IN  /\ comments' = Append(comments, comment)
                /\ IF parsed.raised
                   THEN /\ UNCHANGED <<mentions, watchers, notifications>>
                        /\ response' =
                              [op |-> "create_qa_comment",
                               amendment_id |-> amendment_id,
                               employee_id |-> employee_id,
                               mentions |-> findall_mentions(comment_text, 1),
                               status |-> 500, raised |-> "AttributeError",
                               comment_id |-> comment.comment_id]
                   ELSE /\ mentions' =
                              IF ids # <<>>
                              THEN mentions \o
                                   MentionRows(mentions, comment.comment_id,
                                               ids, employee_id)
                              ELSE mentions
                        /\ watchers' = participated
                        /\ notifications' = notified.notifications
                        /\ response' =
                              [op |-> "create_qa_comment",
                               amendment_id |-> amendment_id,
                               employee_id |-> employee_id,
                               mentions |-> findall_mentions(comment_text, 1),
                               status |-> IF notified.raised THEN 500
                                          ELSE 200,
                               raised |-> IF notified.raised THEN "TypeError"
                                          ELSE "",
                               comment_id |-> comment.comment_id]

\* the status-only requests of the QA update path
StatusOnlyUpdates == QAUpdates({"qa_status"})

NextWatch ==
    \/ CreateAmendment
    \/ \E id \in AmendmentIds : \E e \in EmployeeIds : \E r \in ReasonInputs :
          AddWatcher(id, e, r)
    \/ \E id \in AmendmentIds : \E e \in EmployeeIds : RemoveWatcher(id, e)
    \/ \E id \in AmendmentIds : \E e \in EmployeeIds :
          \E u \in WatcherUpdates : UpdateWatcherPreferences(id, e, u)
    \/ \E id \in AmendmentIds : \E e \in EmployeeIds :
          \E text \in CommentTexts : CreateQAComment(id, e, text)

SpecWatch == Init /\ [][NextWatch]_vars

---------------------------------------------------------------------------
(* Claims about watchers                                                   *)

\* no two rows of the table belong to the same (amendment, employee) pair
UniquePairs(table) ==
    \A i, j \in DOMAIN table :
        (/\ table[i].amendment_id = table[j].amendment_id
         /\ table[i].employee_id = table[j].employee_id) => i = j

\* the pair has a row and it is watching
HasActiveRow(table, amendment_id, employee_id) ==
    LET S == WatcherRowsOf(table, amendment_id, employee_id)
    IN  S # {} /\ \A i \in S : table[i].is_watching

(* C12: after every add_watcher, remove_watcher, preference update and     *)
(* comment creation there is at most one Watcher row per (amendment,       *)
(* collaborator) pair; add_watcher on a pair that has an active row        *)
(* returns that row's identity and leaves the table, and so every field of *)
(* the row, unchanged whatever reason is passed; and the subscription of   *)
(* its author by a comment leaves an active row of the author as it was.   *)
C12_AddWatcherIsIdempotent ==
    [][/\ UniquePairs(watchers')
       /\ \A id \in AmendmentIds : \A e \in EmployeeIds :
             (/\ HasActiveRow(watchers, id, e)
              /\ response'.op \in {"add_watcher", "create_qa_comment"}
              /\ response'.amendment_id = id
              /\ response'.employee_id = e)
             => LET i == FirstIndex(WatcherRowsOf(watchers, id, e))
                IN  /\ watchers' = watchers
                    /\ response'.op = "add_watcher"
                          => /\ response'.status = 200
                             /\ response'.watcher = watchers[i]]_vars

\* add_watcher with reason Manual was called on an active row whose reason
\* is another one and whose comment preference had been switched off, and
\* the row is still as it was
C12_Witness ==
    /\ response.op = "add_watcher"
    /\ response.status = 200
    /\ response.existing # None
    /\ response.existing[1].is_watching
    /\ response.existing[1].watch_reason # response.watch_reason
    /\ ~response.existing[1].notify_comments
    /\ response.watcher = response.existing[1]
    /\ \E i \in DOMAIN watchers : watchers[i] = response.existing[1]

(* C13: remove_watcher never deletes the Watcher row: it answers 204, sets *)
(* is_watching to false and leaves every other field of the row and every  *)
(* other row as they were, and on a pair with no row it changes nothing;   *)
(* add_watcher on a pair whose row is muted returns that same row with     *)
(* is_watching true and every other field as it was, and inserts no row.   *)
C13_RemoveWatcherMutesAndKeepsRow ==
    [][\A id \in AmendmentIds : \A e \in EmployeeIds :
          LET S == WatcherRowsOf(watchers, id, e)
          IN  /\ (/\ response'.op = "remove_watcher"
                  /\ response'.amendment_id = id
                  /\ response'.employee_id = e)
                 => /\ response'.status = 204
                    /\ watchers' =
                          IF S = {} THEN watchers
                          ELSE [watchers EXCEPT
                                   ![FirstIndex(S)].is_watching = FALSE]
              /\ (/\ response'.op = "add_watcher"
                  /\ response'.amendment_id = id
                  /\ response'.employee_id = e
                  /\ S # {}
                  /\ ~watchers[FirstIndex(S)].is_watching)
                 => /\ response'.status = 200
                    /\ watchers' =
                          [watchers EXCEPT
                              ![FirstIndex(S)].is_watching = TRUE]
                    /\ response'.watcher = watchers'[FirstIndex(S)]
                    /\ response'.watcher.watcher_id =
                          watchers[FirstIndex(S)].watcher_id]_vars

\* add_watcher was called on a muted row whose status-change preference had
\* been switched off, and returned that row, watching again
C13_Witness ==
    /\ response.op = "add_watcher"
    /\ response.status = 200
    /\ response.existing # None
    /\ ~response.existing[1].is_watching
    /\ ~response.existing[1].notify_status_changes
    /\ response.watcher = [response.existing[1] EXCEPT !.is_watching = TRUE]
    /\ \E i \in DOMAIN watchers : watchers[i] = response.watcher

---------------------------------------------------------------------------
(* Reactions: crud.toggle_reaction, crud.get_reaction_summary and          *)
(* POST /api/comments/{comment_id}/reactions                               *)

\* the emoji strings a client sends
EmojiInputs == {"+1", "heart"}

\* the comment keys a client sends
CommentIds == 1..MaxComments

\* CommentReaction, restricted to the three columns of its unique
\* constraint uq_comment_reaction; the ledger is the set of these rows
NewReaction(comment_id, employee_id, emoji) ==
    [comment_id |-> comment_id, employee_id |-> employee_id, emoji |-> emoji]

\* the ledger after the call and the row the call returns (None when it
\* removed one)
toggle_reaction_NeverDeletes(table, comment_id, employee_id, emoji) ==
    LET row == NewReaction(comment_id, employee_id, emoji)
    IN  IF row \in table
        THEN [table |-> table, reaction |-> None]
        ELSE [table |-> table \cup {row}, reaction |-> Some(row)]

toggle_reaction(table, comment_id, employee_id, emoji) ==
    LET row == NewReaction(comment_id, employee_id, emoji)
    IN  IF row \in table
        THEN [table |-> table \ {row}, reaction |-> None]
        ELSE [table |-> table \cup {row}, reaction |-> Some(row)]

get_reactions_for_comment(table, comment_id) ==
    {r \in table : r.comment_id = comment_id}

\* dict.get(key, default)
DictGet(dict, key, default) ==
    IF key \in DOMAIN dict THEN dict[key] ELSE default

\* "for reaction in reactions: summary[emoji] = summary.get(emoji, 0) + 1",
\* the rows taken in the order the query returns them
RECURSIVE CountRows(_, _)
CountRows(rows, summary) ==
    IF rows = {} THEN summary
    ELSE LET reaction == CHOOSE r \in rows : TRUE
             emoji == reaction.emoji
         IN  CountRows(rows \ {reaction},
                       [k \in DOMAIN summary \cup {emoji} |->
                           IF k = emoji THEN DictGet(summary, emoji, 0) + 1
                                        ELSE summary[k]])

\* the dict of emoji -> number of rows, built from the empty dict
get_reaction_summary_KeepsZeroCounts(table, comment_id) ==
    LET rows == get_reactions_for_comment(table, comment_id)
    IN  [emoji \in EmojiInputs |->
            Cardinality({r \in rows : r.emoji = emoji})]

get_reaction_summary(table, comment_id) ==
    CountRows(get_reactions_for_comment(table, comment_id), <<>>)

\* crud.get_qa_comment: the comment with that key, None when there is none
get_qa_comment(table, comment_id) ==
    First(table, {i \in DOMAIN table : table[i].comment_id = comment_id})

ToggleReaction(comment_id, employee_id, emoji) ==
    /\ UNCHANGED <<amendments, columns, aside, watchers, comments, mentions,
                   notifications, qa_history, outbox>>
    /\ IF get_qa_comment(comments, comment_id) = None
       THEN /\ response' = [op |-> "toggle_reaction",
                            comment_id |-> comment_id,
                            employee_id |-> employee_id, emoji |-> emoji,
                            status |-> 404]
            /\ UNCHANGED <<reactions, toggled>>
       ELSE LET r == toggle_reaction(reactions, comment_id, employee_id,
                                     emoji)
                t == <<comment_id, employee_id, emoji>>
            IN  /\ reactions' = r.table
                /\ toggled' = IF t \in toggled THEN toggled \ {t}
                                                ELSE toggled \cup {t}
                /\ response' = [op |-> "toggle_reaction",
                                comment_id |-> comment_id,
                                employee_id |-> employee_id, emoji |-> emoji,
                                status |-> 200,
                                added |-> r.reaction # None]

NextReact ==
    \/ CreateAmendment
    \/ \E id \in AmendmentIds : \E e \in EmployeeIds :
          \E text \in CommentTexts : CreateQAComment(id, e, text)
    \/ \E c \in CommentIds : \E e \in EmployeeIds : \E emoji \in EmojiInputs :
          ToggleReaction(c, e, emoji)

SpecReact == Init /\ [][NextReact]_vars

---------------------------------------------------------------------------
(* Claims about reactions                                                  *)

\* summary.get(emoji, 0)
SummaryCount(summary, emoji) ==
    IF emoji \in DOMAIN summary THEN summary[emoji] ELSE 0

\* from the ledger, two calls of toggle_reaction with the same arguments for
\* a row that is absent: added, then removed, and the ledger and the
\* summary are back where they were
TogglesBack(ledger, comment_id, employee_id, emoji) ==
    LET first == toggle_reaction(ledger, comment_id, employee_id, emoji)
        second == toggle_reaction(first.table, comment_id, employee_id, emoji)
        row == NewReaction(comment_id, employee_id, emoji)
    IN  /\ first.reaction # None
        /\ row \in first.table
        /\ SummaryCount(get_reaction_summary(first.table, comment_id), emoji)
              = SummaryCount(get_reaction_summary(ledger, comment_id), emoji)
                   + 1
        /\ second.reaction = None
        /\ second.table = ledger
        /\ row \notin second.table
        /\ SummaryCount(get_reaction_summary(second.table, comment_id), emoji)
              = SummaryCount(get_reaction_summary(ledger, comment_id), emoji)

(* C14: toggle_reaction is an involution on the ledger.  From every        *)
(* reachable ledger and for every (comment, collaborator, emoji) whose row *)
(* is absent, two calls with those arguments add the row and then remove   *)
(* it, the ledger after the second call is the ledger before the first,    *)
(* and the summary count of the emoji is what it was; and every call the   *)
(* endpoint makes reports added = true exactly when the row was absent and *)
(* changes the ledger by that one row only.                                *)
C14_ToggleIsAnInvolution ==
    [][/\ \A c \in CommentIds : \A e \in EmployeeIds :
             \A emoji \in EmojiInputs :
                NewReaction(c, e, emoji) \notin reactions'
                   => TogglesBack(reactions', c, e, emoji)
       /\ (response'.op = "toggle_reaction" /\ response'.status = 200)
             => LET row == NewReaction(response'.comment_id,
                                       response'.employee_id,
                                       response'.emoji)
                IN  IF row \in reactions
                    THEN /\ ~response'.added
                         /\ reactions' = reactions \ {row}
                    ELSE /\ response'.added
                         /\ reactions' = reactions \cup {row}]_vars

\* the second of two calls has just removed a collaborator's reaction from
\* a comment that still carries the same emoji from the other collaborator
C14_Witness ==
    /\ response.op = "toggle_reaction"
    /\ response.status = 200
    /\ ~response.added
    /\ NewReaction(response.comment_id, response.employee_id, response.emoji)
          \notin reactions
    /\ SummaryCount(get_reaction_summary(reactions, response.comment_id),
                    response.emoji) = 1

---------------------------------------------------------------------------
(* Claims about comment creation                                           *)

\* the collaborators a list of mention tokens names
MentionedIn(tokens) ==
    {m \in EmployeeIds : \E i \in DOMAIN tokens : tokens[i] = EmployeeName(m)}

(* C15: creating a comment whose text mentions an active collaborator who  *)
(* has no Watcher row on the amendment creates exactly one Mention row     *)
(* (that comment, that collaborator, the author) and exactly one Watcher   *)
(* row for the collaborator, with reason Mentioned and is_watching true.   *)
C15_MentionCreatesMentionAndWatcher ==
    [][(response'.op = "create_qa_comment" /\ response'.status # 404)
          => \A m \in MentionedIn(response'.mentions) :
                WatcherRowsOf(watchers, response'.amendment_id, m) = {}
                => /\ Cardinality(
                         {i \in DOMAIN mentions' :
                             /\ i \notin DOMAIN mentions
                             /\ mentions'[i].comment_id = response'.comment_id
                             /\ mentions'[i].mentioned_employee_id = m
                             /\ mentions'[i].mentioned_by_employee_id =
                                   response'.employee_id}) = 1
                   /\ Cardinality(
                         {i \in WatcherRowsOf(watchers',
                                              response'.amendment_id, m) :
                             /\ watchers'[i].watch_reason = "Mentioned"
                             /\ watchers'[i].is_watching}) = 1
                   /\ Cardinality(WatcherRowsOf(watchers',
                                                response'.amendment_id, m))
                         = 1]_vars

\* the number of rows a step added to the notifications table for a
\* recipient
NewNotificationsFor(before, after, employee_id) ==
    Cardinality({i \in DOMAIN after : /\ i \notin DOMAIN before
                                      /\ after[i].employee_id = employee_id})

---------------------------------------------------------------------------
(* Status changes on a watched amendment: the watcher endpoints together   *)
(* with the status-only requests of the QA update path                     *)

NextStatus ==
    \/ CreateAmendment
    \/ \E id \in AmendmentIds : \E e \in EmployeeIds : \E r \in ReasonInputs :
          AddWatcher(id, e, r)
    \/ \E id \in AmendmentIds : \E e \in EmployeeIds : RemoveWatcher(id, e)
    \/ \E id \in AmendmentIds : \E e \in EmployeeIds :
          \E u \in WatcherUpdates : UpdateWatcherPreferences(id, e, u)
    \/ \E id \in AmendmentIds : \E data \in StatusOnlyUpdates :
          UpdateAmendmentQA(id, {"qa_status"}, data, None, Unset, 1)

SpecStatus == Init /\ [][NextStatus]_vars

(* C16: a status change on an amendment dispatches one notification to     *)
(* each active watcher of the amendment whose notify_status_changes is     *)
(* true, and none to a watcher whose preference is false, who is muted, or *)
(* who is the acting collaborator.  The QA update request does not name    *)
(* its sender, so the property holds of a step if it holds for some choice *)
(* of the acting collaborator, or for none.                                *)
C16_StatusChangeNotifiesWatchers ==
    [][\A id \in DOMAIN amendments :
          (/\ id \in DOMAIN amendments'
           /\ amendments'[id].qa_status # amendments[id].qa_status)
          => \E actor \in EmployeeIds \cup {0} :
                \A m \in EmployeeIds :
                   NewNotificationsFor(notifications, notifications', m) =
                      IF /\ m # actor
                         /\ \E i \in WatcherRowsOf(watchers, id, m) :
                               /\ watchers[i].is_watching
                               /\ watchers[i].notify_status_changes
                      THEN 1 ELSE 0]_vars

(* C17: creating a comment on an amendment completes, and it creates       *)
(* exactly one Notification for each collaborator who, once the comment's  *)
(* auto-subscriptions are applied, is an active watcher of the amendment   *)
(* with notify_comments true and is not the author, and none for anyone    *)
(* else.                                                                   *)
C17_CommentNotifiesWatchers ==
    [][(response'.op = "create_qa_comment" /\ response'.status # 404)
          => /\ response'.status = 200
             /\ \A m \in EmployeeIds :
                   NewNotificationsFor(notifications, notifications', m) =
                      IF /\ m # response'.employee_id
                         /\ \E i \in WatcherRowsOf(watchers',
                                                   response'.amendment_id, m) :
                               /\ watchers'[i].is_watching
                               /\ watchers'[i].notify_comments
                      THEN 1 ELSE 0]_vars

(* C18: every accepted change of an amendment's qa_status adds exactly one *)
(* HistoryEntry for the amendment, whose old value is the status before    *)
(* and whose new value is the status after; a QA update that is rejected   *)
(* or leaves qa_status as it was adds none.                                *)
C18_StatusChangeWritesHistory ==
    [][\A id \in DOMAIN amendments :
          id \in DOMAIN amendments'
          => IF amendments'[id].qa_status # amendments[id].qa_status
             THEN /\ Len(qa_history') = Len(qa_history) + 1
                  /\ qa_history'[Len(qa_history')].amendment_id = id
                  /\ qa_history'[Len(qa_history')].old_value =
                        amendments[id].qa_status
                  /\ qa_history'[Len(qa_history')].new_value =
                        amendments'[id].qa_status
             ELSE qa_history' = qa_history]_vars

(* C19: comment creation is one unit of work: when a step of it fails,     *)
(* none of the rows written by the earlier steps is there afterwards, so   *)
(* the comments, mentions, watchers and notifications tables are as they   *)
(* were before the request.                                                *)
C19_CommentCreationIsAtomic ==
    [][(response'.op = "create_qa_comment" /\ response'.status = 500)
          => /\ comments' = comments
             /\ mentions' = mentions
             /\ watchers' = watchers
             /\ notifications' = notifications]_vars

---------------------------------------------------------------------------
(* Notifications with mail: NotificationService.notify_qa_assigned,        *)
(* notify_status_changed and notify_defect_created of                      *)
(* backend/app/notification_service.py, and EmailService.send_email of     *)
(* backend/app/email_service.py                                            *)

MaxNotifications == 2

\* Employee.email of the two collaborators: the first has an address, the
\* second has none
EmployeeEmail(employee_id) ==
    IF employee_id = 1 THEN Some(<<"x">>) ELSE None

\* db.query(Employee).filter(Employee.employee_id == id).first()
get_employee(employee_id) ==
    IF employee_id \in EmployeeIds THEN Some(employee_id) ELSE None

\* "if employee and employee.email": there is a row and its email is
\* neither None nor empty
HasEmail(employee) ==
    /\ employee # None
    /\ EmployeeEmail(employee[1]) # None
    /\ EmployeeEmail(employee[1])[1] # <<>>

\* EmailService.send_email: False when the service is not enabled and
\* configured or there is no recipient; otherwise True when the SMTP
\* exchange succeeds and False when it raises (the exception is caught)
send_email(enabled, to_emails, smtp_ok) ==
    IF ~enabled THEN FALSE
    ELSE IF SelectSeq(to_emails, LAMBDA a : a # <<>>) = <<>> THEN FALSE
    ELSE smtp_ok

\* The body the three notify_* methods share: create the notification
\* (committed by create_notification), then attempt the mail if the
\* recipient has an address, then mark the record when the send reported
\* success.  Each mail attempt is logged with the number of notification
\* rows committed when it was made.
CreateThenMail_MailFirst(notes, out, employee_id, employee, notification_type, amendment_id, enabled, smtp_ok) ==
    LET attempt == HasEmail(employee)
        email_sent == /\ attempt
                      /\ send_email(enabled,
                                    <<EmployeeEmail(employee[1])[1]>>,
                                    smtp_ok)
        mailed == IF attempt
                  THEN Append(out, [to |-> employee_id,
                                    committed |-> Len(notes),
                                    sent |-> email_sent])
                  ELSE out
    IN  IF attempt /\ ~email_sent
        THEN [returned |-> FALSE, notifications |-> notes, outbox |-> mailed]
        ELSE [returned |-> TRUE,
              notifications |->
                  create_notification(notes, employee_id, notification_type,
                                      amendment_id, email_sent),
              outbox |-> mailed]

CreateThenMail(notes, out, employee_id, employee, notification_type, amendment_id, enabled, smtp_ok) ==
    LET created == create_notification(notes, employee_id, notification_type,
                                       amendment_id, FALSE)
        attempt == HasEmail(employee)
        email_sent == /\ attempt
                      /\ send_email(enabled,
                                    <<EmployeeEmail(employee[1])[1]>>,
                                    smtp_ok)
    IN  [returned |-> TRUE,
         notifications |->
             IF email_sent
             THEN [created EXCEPT ![Len(created)].is_email_sent = TRUE]
             ELSE created,
         outbox |->
             IF attempt
             THEN Append(out, [to |-> employee_id,
                               committed |-> Len(created),
                               sent |-> email_sent])
             ELSE out]

\* nothing is created and the method returns False
NotNotified(notes, out) ==
    [returned |-> FALSE, notifications |-> notes, outbox |-> out]

notify_qa_assigned(notes, out, amendment_id, assigned_to, enabled, smtp_ok) ==
    CreateThenMail(notes, out, assigned_to, Some(assigned_to), "QA Assigned",
                   amendment_id, enabled, smtp_ok)

notify_status_changed(notes, out, amendment_id, amendment, enabled, smtp_ok) ==
    IF NotInt(amendment.qa_assigned_id)
    THEN NotNotified(notes, out)
    ELSE CreateThenMail(notes, out, amendment.qa_assigned_id[1],
                        get_employee(amendment.qa_assigned_id[1]),
                        "Status Changed", amendment_id, enabled, smtp_ok)

notify_defect_created(notes, out, defect, enabled, smtp_ok) ==
    IF NotInt(defect.assigned_to_id)
    THEN NotNotified(notes, out)
    ELSE CreateThenMail(notes, out, defect.assigned_to_id[1],
                        get_employee(defect.assigned_to_id[1]),
                        "Defect Created", defect.amendment_id, enabled,
                        smtp_ok)

\* a QADefect as notify_defect_created reads it
Defects ==
    [defect_id : {1}, amendment_id : AmendmentIds,
     assigned_to_id : Opt(TesterIds)]

\* the requests of the QA update path that set the assigned tester only
AssignOnlyUpdates == QAUpdates({"qa_assigned_id"})

Notified(op, recipient, enabled, smtp_ok, r) ==
    /\ Len(notifications) < MaxNotifications
    /\ notifications' = r.notifications
    /\ outbox' = r.outbox
    /\ response' = [op |-> op, recipient |-> recipient, enabled |-> enabled,
                    smtp_ok |-> smtp_ok, result |-> r.returned]
    /\ UNCHANGED <<amendments, columns, aside, watchers, comments, mentions,
                   reactions, toggled, qa_history>>

NotifyQAAssigned(amendment_id, assigned_to, enabled, smtp_ok) ==
    /\ amendment_id \in DOMAIN amendments
    /\ Notified("notify_qa_assigned", Some(assigned_to), enabled, smtp_ok,
                notify_qa_assigned(notifications, outbox, amendment_id,
                                   assigned_to, enabled, smtp_ok))

NotifyStatusChanged(amendment_id, enabled, smtp_ok) ==
    /\ amendment_id \in DOMAIN amendments
    /\ Notified("notify_status_changed",
                amendments[amendment_id].qa_assigned_id, enabled, smtp_ok,
                notify_status_changed(notifications, outbox, amendment_id,
                                      amendments[amendment_id], enabled,
                                      smtp_ok))

NotifyDefectCreated(defect, enabled, smtp_ok) ==
    /\ defect.amendment_id \in DOMAIN amendments
    /\ Notified("notify_defect_created", defect.assigned_to_id, enabled,
                smtp_ok,
                notify_defect_created(notifications, outbox, defect, enabled,
                                      smtp_ok))

NextNotify ==
    \/ CreateAmendment
    \/ \E id \in AmendmentIds : \E data \in AssignOnlyUpdates :
          UpdateAmendmentQA(id, {"qa_assigned_id"}, data, None, Unset, 1)
    \/ \E id \in AmendmentIds : \E e \in EmployeeIds :
          \E enabled \in BOOLEAN : \E smtp_ok \in BOOLEAN :
             NotifyQAAssigned(id, e, enabled, smtp_ok)
    \/ \E id \in AmendmentIds :
          \E enabled \in BOOLEAN : \E smtp_ok \in BOOLEAN :
             NotifyStatusChanged(id, enabled, smtp_ok)
    \/ \E defect \in Defects :
          \E enabled \in BOOLEAN : \E smtp_ok \in BOOLEAN :
             NotifyDefectCreated(defect, enabled, smtp_ok)

SpecNotify == Init /\ [][NextNotify]_vars

---------------------------------------------------------------------------
(* Claims about notifications with mail                                    *)

NotifyOps ==
    {"notify_qa_assigned", "notify_status_changed", "notify_defect_created"}

(* C20: mail failure never blocks the creation of the in-app notification. *)
(* A call of notify_qa_assigned, notify_status_changed or                  *)
(* notify_defect_created that has a recipient reports success and adds     *)
(* exactly one Notification for the recipient; a mail attempt, if one is   *)
(* made, is made when that record is already committed; the record's       *)
(* is_email_sent is true exactly when a mail attempt was made and reported *)
(* success, so it is false when mail is disabled or the send fails.        *)
C20_MailFailureNeverBlocksNotification ==
    [][(response'.op \in NotifyOps /\ ~NotInt(response'.recipient))
          => LET n == Len(notifications')
                 attempted == Len(outbox') = Len(outbox) + 1
             IN  /\ response'.result = TRUE
                 /\ n = Len(notifications) + 1
                 /\ SubSeq(notifications', 1, n - 1) = notifications
                 /\ notifications'[n].employee_id = response'.recipient[1]
                 /\ attempted \/ outbox' = outbox
                 /\ attempted
                       => /\ SubSeq(outbox', 1, Len(outbox)) = outbox
                          /\ outbox'[Len(outbox')].to = response'.recipient[1]
                          /\ outbox'[Len(outbox')].committed = n
                          /\ outbox'[Len(outbox')].sent =
                                (response'.enabled /\ response'.smtp_ok)
                 /\ notifications'[n].is_email_sent =
                       (attempted /\ outbox'[Len(outbox')].sent)
                 /\ (~response'.enabled \/ ~response'.smtp_ok)
                       => ~notifications'[n].is_email_sent]_vars

\* a status-change notification for a tester with an address was created
\* while mail was enabled and the send failed: the call reported success and
\* the record is there with is_email_sent false
C20_Witness ==
    /\ response.op = "notify_status_changed"
    /\ response.recipient = Some(1)
    /\ response.enabled
    /\ ~response.smtp_ok
    /\ response.result = TRUE
    /\ outbox # <<>>
    /\ ~outbox[Len(outbox)].sent
    /\ outbox[Len(outbox)].committed = Len(notifications)
    /\ ~notifications[Len(notifications)].is_email_sent
    /\ notifications[Len(notifications)].notification_type = "Status Changed"

---------------------------------------------------------------------------
(* Partial updates: the QA update endpoint under requests that carry the   *)
(* status or a checklist item (the loop of update_amendment_qa treats      *)
(* every field alike), a modified_by in the query or in the body, and a    *)
(* clock that moves                                                        *)

FrameFieldSets == {F \in FieldSets :
       F \subseteq {"qa_status", "qa_test_plan_check"}}

\* the clock never reads less than a stored modified_on
ClockAt(id) ==
    {now \in Clock : id \in DOMAIN columns => now >= columns[id].modified_on}

NextFrame ==
    \/ CreateAmendment
    \/ \E id \in AmendmentIds : \E F \in FrameFieldSets :
          \E data \in QAUpdates(F) : \E modified_by \in Opt(UserNames) :
             \E body \in BodyModifiedBy : \E now \in ClockAt(id) :
                PatchAmendmentQA(id, F, data, modified_by, body, now)
    \/ \E F \in FrameFieldSets : \E data \in QAUpdates(F) :
          \* an id no amendment has
          PatchAmendmentQA(Cardinality(AmendmentIds) + 1, F, data,
                           None, Unset, 1)

SpecFrame == Init /\ [][NextFrame]_vars

\* the step is a QA update that answered with this status
PatchAnswered(status) ==
    /\ response'.op = "patch_amendment_qa"
    /\ response'.status = status

\* the QA fields absent from the request and the content column keep their
\* values, and so does modified_by when the request gives none
KeepsAbsentFields(id) ==
    /\ \A f \in QAFields \ response'.fields :
          amendments'[id][f] = amendments[id][f]
    /\ columns'[id].description = columns[id].description
    /\ columns'[id].qa_due_date = columns[id].qa_due_date
    /\ "modified_by" \notin response'.fields
          => columns'[id].modified_by = columns[id].modified_by

\* a request that is refused, or that names no amendment, writes nothing
RefusedWritesNothing ==
    (PatchAnswered(404) \/ PatchAnswered(500))
        => /\ UNCHANGED <<amendments, columns, collab>>
           /\ PatchAnswered(404) <=> response'.amendment_id \notin DOMAIN amendments

\* C21 as stated: a QA update changes exactly the fields present in the
\* request (plus modified_by when given); every other field of the
\* amendment, modified_on included, keeps its value, an empty request
\* changes nothing and a request for a missing amendment answers not-found
\* and changes nothing
C21_UpdateChangesOnlyRequestedFields ==
    [][/\ RefusedWritesNothing
       /\ PatchAnswered(200)
             => /\ KeepsAbsentFields(response'.amendment_id)
                /\ columns'[response'.amendment_id].modified_on
                      = columns[response'.amendment_id].modified_on
                /\ UNCHANGED collab]_vars

\* C21 as amended: the same, except that modified_on is refreshed by an
\* update, and only by one that stores a new value in some field
C21_UpdateChangesRequestedFieldsAndModifiedOn ==
    [][/\ RefusedWritesNothing
       /\ PatchAnswered(200)
             => LET id == response'.amendment_id
                IN  /\ KeepsAbsentFields(id)
                    /\ UNCHANGED collab
                    /\ (columns'[id].modified_on # columns[id].modified_on)
                          => \/ amendments'[id] # amendments[id]
                              \/ columns'[id].modified_by
                                    # columns[id].modified_by
                    /\ response'.fields = {}
                          => UNCHANGED <<amendments, columns>>]_vars

\* an update of one checklist field, after the status had been set: the
\* status is kept and modified_on has moved
C21_Witness ==
    /\ response.op = "patch_amendment_qa"
    /\ response.status = 200
    /\ response.fields = {"qa_test_plan_check"}
    /\ amendments[1].qa_status = "In Testing"
    /\ amendments[1].qa_test_plan_check = Some(TRUE)
    /\ columns[1].modified_on = MaxClock

---------------------------------------------------------------------------
(* Two requests served at the same time: add_watcher and toggle_reaction  *)
(* read the table with a query and write it with a later commit, each in  *)
(* its own session; the store commits one record at a time and enforces   *)
(* the unique constraints uq_amendment_watcher and uq_comment_reaction    *)

\* the call has read and has not committed
HasRead(c, op) == inflight[c].pc = "read" /\ inflight[c].op = op

\* POST /api/amendments/{id}/watchers up to the query of add_watcher
ReadWatcher(c, amendment_id, employee_id, reason) ==
    /\ inflight[c].pc # "read"
    /\ amendment_id \in DOMAIN amendments
    /\ inflight' =
          [inflight EXCEPT
              ![c] = [op |-> "add_watcher", pc |-> "read",
                      args |-> <<amendment_id, employee_id, reason>>,
                      existing |-> First(watchers,
                                         WatcherRowsOf(watchers, amendment_id,
                                                       employee_id))]]
    /\ UNCHANGED <<amendments, columns, response, collab, defects,
                   executions>>

\* the rest of add_watcher: the row read is reactivated through its key; a
\* new row is inserted, and the commit raises IntegrityError when the pair
\* has a row by then
CommitWatcher(c) ==
    /\ HasRead(c, "add_watcher")
    /\ LET call == inflight[c]
           amendment_id == call.args[1]
           employee_id == call.args[2]
           S == WatcherRowsOf(watchers, amendment_id, employee_id)
           raised == call.existing = None /\ S # {}
           watcher ==
               IF call.existing # None
               THEN [call.existing[1] EXCEPT !.is_watching = TRUE]
               ELSE NewWatcher(NextId(watchers, "watcher_id"), amendment_id,
                               employee_id, call.args[3])
       IN  /\ watchers' =
                 IF raised THEN watchers
                 ELSE IF call.existing = None THEN Append(watchers, watcher)
                 ELSE IF call.existing[1].is_watching THEN watchers
                 ELSE [i \in DOMAIN watchers |->
                          IF watchers[i].watcher_id = watcher.watcher_id
                          THEN [watchers[i] EXCEPT !.is_watching = TRUE]
                          ELSE watchers[i]]
           /\ inflight' =
                 [inflight EXCEPT
                     ![c] = [op |-> call.op, pc |-> "done",
                             args |-> call.args,
                             found |-> call.existing # None,
                             raised |-> raised,
                             result |-> IF raised THEN None
                                        ELSE Some(watcher.watcher_id)]]
           /\ response' = [op |-> "add_watcher_commit", call |-> c,
                           status |-> IF raised THEN 500 ELSE 200]
    /\ UNCHANGED <<amendments, columns, comments, mentions, reactions,
                   toggled, notifications, qa_history, outbox, defects,
                   executions>>

\* POST /api/qa-comments/{id}/reactions up to the query of toggle_reaction
ReadReaction(c, comment_id, employee_id, emoji) ==
    /\ inflight[c].pc # "read"
    /\ get_qa_comment(comments, comment_id) # None
    /\ inflight' =
          [inflight EXCEPT
              ![c] = [op |-> "toggle_reaction", pc |-> "read",
                      args |-> <<comment_id, employee_id, emoji>>,
                      existing |->
                          IF NewReaction(comment_id, employee_id, emoji)
                                \in reactions
                          THEN Some(NewReaction(comment_id, employee_id,
                                                emoji))
                          ELSE None]]
    /\ UNCHANGED <<amendments, columns, response, collab, defects,
                   executions>>

\* the rest of toggle_reaction: the row read is deleted (a DELETE that
\* matches no row any more only warns); a new row is inserted, and the
\* commit raises IntegrityError when the triple has a row by then
CommitReaction(c) ==
    /\ HasRead(c, "toggle_reaction")
    /\ LET call == inflight[c]
           row == NewReaction(call.args[1], call.args[2], call.args[3])
           raised == call.existing = None /\ row \in reactions
       IN  /\ reactions' =
                 IF raised THEN reactions
                 ELSE IF call.existing = None THEN reactions \cup {row}
                 ELSE reactions \ {row}
           /\ toggled' =
                 IF raised THEN toggled
                 ELSE IF call.args \in toggled THEN toggled \ {call.args}
                 ELSE toggled \cup {call.args}
           /\ inflight' =
                 [inflight EXCEPT
                     ![c] = [op |-> call.op, pc |-> "done",
                             args |-> call.args,
                             found |-> call.existing # None,
                             raised |-> raised,
                             result |-> IF raised \/ call.existing # None
                                        THEN None ELSE Some(row)]]
           /\ response' = [op |-> "toggle_reaction_commit", call |-> c,
                           status |-> IF raised THEN 500 ELSE 200]
    /\ UNCHANGED <<amendments, columns, watchers, comments, mentions,
                   notifications, qa_history, outbox, defects, executions>>

\* the collaborator whose client sends a request twice
Retrying == CHOOSE e \in EmployeeIds : TRUE

NextRace ==
    \/ CreateAmendment
    \/ \E id \in AmendmentIds : \E e \in EmployeeIds :
          CreateQAComment(id, e, <<"a">>)
    \/ \E c \in Calls : \E id \in AmendmentIds : \E r \in ReasonInputs :
          ReadWatcher(c, id, Retrying, r)
    \/ \E c \in Calls : CommitWatcher(c)
    \/ \E c \in Calls : \E k \in CommentIds : \E emoji \in EmojiInputs :
          ReadReaction(c, k, Retrying, emoji)
    \/ \E c \in Calls : CommitReaction(c)

SpecRace == Init /\ [][NextRace]_vars

\* two calls with the same arguments that both found no row and have both
\* returned
BothFoundNoRow(c, d, op) ==
    /\ c # d
    /\ inflight[c].pc = "done" /\ inflight[d].pc = "done"
    /\ inflight[c].op = op /\ inflight[d].op = op
    /\ inflight[c].args = inflight[d].args
    /\ ~inflight[c].found /\ ~inflight[d].found

\* C22: two add_watcher calls for a pair without a row, interleaved in any
\* order of their read and insert steps, both complete without error, return
\* the same watcher and leave exactly one row; two interleaved
\* toggle_reaction calls with the same arguments never fail and never leave
\* two rows
C22_InterleavedRetriesAreSafe ==
    \A c, d \in Calls :
        /\ BothFoundNoRow(c, d, "add_watcher")
              => /\ ~inflight[c].raised /\ ~inflight[d].raised
                 /\ inflight[c].result = inflight[d].result
                 /\ Cardinality(WatcherRowsOf(watchers, inflight[c].args[1],
                                              inflight[c].args[2])) = 1
        /\ BothFoundNoRow(c, d, "toggle_reaction")
              => /\ ~inflight[c].raised /\ ~inflight[d].raised
                 /\ Cardinality({r \in reactions :
                        <<r.comment_id, r.employee_id, r.emoji>>
                           = inflight[c].args}) <= 1

---------------------------------------------------------------------------
(* The reaction ledger after any sequence of toggles                       *)

\* the rows of the ledger for a (comment, collaborator, emoji) triple
ReactionRowsOf(comment_id, employee_id, emoji) ==
    {r \in reactions : /\ r.comment_id = comment_id
                       /\ r.employee_id = employee_id
                       /\ r.emoji = emoji}

\* the emojis with a row on the comment
EmojisOn(comment_id) ==
    {emoji \in EmojiInputs :
        \E e \in EmployeeIds : ReactionRowsOf(comment_id, e, emoji) # {}}

---------------------------------------------------------------------------
(* Comments that name a collaborator more than once                        *)

\* comment texts long enough to hold two mentions
MentionTexts ==
    UNION {[1..n -> CommentChars] : n \in 0..MaxMentionTextLen}

\* the parser applied to a text, outside any request
ParseMentions(comment_text) ==
    /\ response' = [op |-> "parse_mentions", comment_text |-> comment_text,
                    mentions |-> findall_mentions(comment_text, 1),
                    raised |-> parse_mentions(comment_text).raised,
                    employee_ids |-> parse_mentions(comment_text).employee_ids]
    /\ UNCHANGED <<amendments, columns, collab, aside>>

NextMention ==
    \/ CreateAmendment
    \/ \E text \in MentionTexts : ParseMentions(text)
    \/ \E id \in AmendmentIds : \E e \in EmployeeIds :
          \E text \in MentionTexts : CreateQAComment(id, e, text)

SpecMention == Init /\ [][NextMention]_vars

\* how often a list of mention tokens names the collaborator
TimesNamed(tokens, m) ==
    Cardinality({i \in DOMAIN tokens : tokens[i] = EmployeeName(m)})

\* how often a list of ids holds the collaborator
TimesListed(employee_ids, m) ==
    Cardinality({i \in DOMAIN employee_ids : employee_ids[i] = m})

(* C24: when a comment text mentions the same collaborator more than once, *)
(* parse_mentions returns that collaborator's id exactly once and the      *)
(* creation of the comment writes exactly one Mention row for that         *)
(* (comment, collaborator) pair.                                           *)
C24_DuplicateMentionsCollapse ==
    [][/\ response'.op = "parse_mentions"
             => \A m \in EmployeeIds :
                   TimesNamed(response'.mentions, m) > 1
                      => /\ ~response'.raised
                         /\ TimesListed(response'.employee_ids, m) = 1
       /\ (response'.op = "create_qa_comment" /\ response'.status # 404)
             => \A m \in EmployeeIds :
                   TimesNamed(response'.mentions, m) > 1
                      => Cardinality(
                            {i \in DOMAIN mentions' :
                                /\ i \notin DOMAIN mentions
                                /\ mentions'[i].comment_id
                                      = response'.comment_id
                                /\ mentions'[i].mentioned_employee_id = m})
                            = 1]_vars

---------------------------------------------------------------------------
(* Automatic subscriptions and muted watchers                              *)

\* the collaborator has muted the amendment: a row with is_watching false
IsMuted(table, amendment_id, employee_id) ==
    \E i \in WatcherRowsOf(table, amendment_id, employee_id) :
        ~table[i].is_watching

(* C25: an automatic subscription does not override an explicit mute.  If  *)
(* a collaborator's Watcher row on the amendment has is_watching false,    *)
(* then creating a comment as that collaborator, or a comment that         *)
(* mentions that collaborator, leaves is_watching false.                   *)
C25_AutoSubscribeKeepsMute ==
    [][(response'.op = "create_qa_comment" /\ response'.status # 404)
          => \A e \in EmployeeIds :
                (/\ IsMuted(watchers, response'.amendment_id, e)
                 /\ \/ e = response'.employee_id
                    \/ e \in MentionedIn(response'.mentions))
                   => IsMuted(watchers', response'.amendment_id, e)]_vars

---------------------------------------------------------------------------
(* Events with a single responsible party: the five notify_* methods that *)
(* address the assigned tester or the assigned developer, called while    *)
(* collaborators watch and mute the amendment                             *)

\* the row of Notification a method creates without mail
NotifiedWithoutMail(notes, out, employee_id, notification_type, amendment_id) ==
    [returned |-> TRUE,
     notifications |-> create_notification(notes, employee_id,
                                           notification_type, amendment_id,
                                           FALSE),
     outbox |-> out]

notify_test_failed(notes, out, execution, amendment) ==
    IF NotInt(amendment.qa_assigned_id)
    THEN NotNotified(notes, out)
    ELSE NotifiedWithoutMail(notes, out, amendment.qa_assigned_id[1],
                             "Test Failed", execution.amendment_id)

notify_sla_breach_WithoutAssigneeCheck(notes, out, amendment_id, amendment) ==
    IF NotInt(amendment.qa_assigned_id)
    THEN [returned |-> TRUE, notifications |-> notes, outbox |-> out]
    ELSE NotifiedWithoutMail(notes, out, amendment.qa_assigned_id[1],
                             "SLA Breach", amendment_id)

notify_sla_breach(notes, out, amendment_id, amendment) ==
    IF NotInt(amendment.qa_assigned_id)
    THEN NotNotified(notes, out)
    ELSE NotifiedWithoutMail(notes, out, amendment.qa_assigned_id[1],
                             "SLA Breach", amendment_id)

NotifyTestFailed(execution) ==
    /\ execution.amendment_id \in DOMAIN amendments
    /\ Notified("notify_test_failed",
                amendments[execution.amendment_id].qa_assigned_id, FALSE,
                FALSE,
                notify_test_failed(notifications, outbox, execution,
                                   amendments[execution.amendment_id]))

NotifySLABreach(amendment_id) ==
    /\ amendment_id \in DOMAIN amendments
    /\ Notified("notify_sla_breach", amendments[amendment_id].qa_assigned_id,
                FALSE, FALSE,
                notify_sla_breach(notifications, outbox, amendment_id,
                                  amendments[amendment_id]))

\* the mail service is disabled in this specification (EMAIL_ENABLED unset)
NextParty ==
    \/ CreateAmendment
    \/ \E id \in AmendmentIds : \E data \in AssignOnlyUpdates :
          UpdateAmendmentQA(id, {"qa_assigned_id"}, data, None, Unset, 1)
    \/ \E id \in AmendmentIds : \E e \in EmployeeIds : \E r \in ReasonInputs :
          AddWatcher(id, e, r)
    \/ \E id \in AmendmentIds : \E e \in EmployeeIds : RemoveWatcher(id, e)
    \/ \E id \in AmendmentIds : \E e \in EmployeeIds :
          NotifyQAAssigned(id, e, FALSE, FALSE)
    \/ \E id \in AmendmentIds : NotifyStatusChanged(id, FALSE, FALSE)
    \/ \E execution \in [execution_id : {1}, amendment_id : AmendmentIds] :
          NotifyTestFailed(execution)
    \/ \E id \in AmendmentIds : NotifySLABreach(id)
    \/ \E defect \in Defects : NotifyDefectCreated(defect, FALSE, FALSE)

SpecParty == Init /\ [][NextParty]_vars

\* the notification type each method writes
PartyOps ==
    [notify_qa_assigned |-> "QA Assigned",
     notify_status_changed |-> "Status Changed",
     notify_test_failed |-> "Test Failed",
     notify_sla_breach |-> "SLA Breach",
     notify_defect_created |-> "Defect Created"]

(* C26: an event with a single responsible party (the assigned tester for  *)
(* notify_qa_assigned, notify_status_changed, notify_test_failed and       *)
(* notify_sla_breach, the assigned developer for notify_defect_created)    *)
(* creates exactly one Notification, addressed to that party, whatever the *)
(* Watcher rows of the amendment are, when the party has a contact         *)
(* address; when no party is assigned it creates none and reports false.   *)
C26_ResponsiblePartyGetsOneNotification ==
    [][response'.op \in DOMAIN PartyOps
          => LET party == response'.recipient
                 n == Len(notifications')
             IN  /\ watchers' = watchers
                 /\ NotInt(party)
                       => /\ response'.result = FALSE
                          /\ notifications' = notifications
                 /\ (~NotInt(party) /\ HasEmail(get_employee(party[1])))
                       => /\ response'.result = TRUE
                          /\ n = Len(notifications) + 1
                          /\ SubSeq(notifications', 1, n - 1) = notifications
                          /\ notifications'[n].employee_id = party[1]
                          /\ notifications'[n].notification_type
                                = PartyOps[response'.op]]_vars

\* the tester is assigned and has muted the amendment, another collaborator
\* watches it, and an SLA breach has just been notified to the tester
C26_Witness ==
    /\ response.op = "notify_sla_breach"
    /\ response.result = TRUE
    /\ \E t \in EmployeeIds :
          /\ response.recipient = Some(t)
          /\ HasEmail(get_employee(t))
          /\ IsMuted(watchers, 1, t)
          /\ \E e \in EmployeeIds \ {t} : HasActiveRow(watchers, 1, e)
          /\ notifications[Len(notifications)].employee_id = t
          /\ notifications[Len(notifications)].notification_type
                = "SLA Breach"

---------------------------------------------------------------------------
(* The overdue sweep: NotificationService.check_and_notify_overdue run     *)
(* once over a table of amendments.  No code of the sources writes         *)
(* qa_due_date, so the table the sweep reads is drawn from the rows the    *)
(* schema admits.                                                          *)

SweepIds == {1, 2}

SweepRows ==
    {[NewAmendment EXCEPT !.qa_status = s, !.qa_assigned_id = t] :
        s \in StatusInputs, t \in Opt(TesterIds)}

SweepColumns ==
    {[NewColumns(1) EXCEPT !.qa_due_date = d] : d \in Opt(Timestamps)}

\* the elements of a set of ids, in increasing order
RECURSIVE Ascending(_)
Ascending(S) ==
    IF S = {} THEN <<>>
    ELSE LET least == CHOOSE x \in S : \A y \in S : x <= y
         IN  <<least>> \o Ascending(S \ {least})

\* crud.check_overdue_qa: the ids of the amendments whose due date is before
\* now and whose status is one of the four listed
check_overdue_qa_IgnoresStatus(rows, cols, now) ==
    Ascending({id \in DOMAIN rows :
                  /\ cols[id].qa_due_date # None
                  /\ cols[id].qa_due_date[1] < now})

check_overdue_qa(rows, cols, now) ==
    Ascending({id \in DOMAIN rows :
                  /\ cols[id].qa_due_date # None
                  /\ cols[id].qa_due_date[1] < now
                  /\ rows[id].qa_status
                        \in {"Assigned", "In Testing", "Blocked",
                             "Not Started"}})

\* amendments_by_tester: the testers in the order the dict receives its
\* keys; amendments without a tester are skipped
RECURSIVE TestersOf(_, _)
TestersOf(overdue, rows) ==
    IF overdue = <<>> THEN <<>>
    ELSE LET rest == TestersOf(Tail(overdue), rows)
             assigned == rows[Head(overdue)].qa_assigned_id
         IN  IF NotInt(assigned) THEN rest
             ELSE <<assigned[1]>>
                     \o SelectSeq(rest, LAMBDA t : t # assigned[1])

\* the overdue amendments of one tester, in the order of the query
AmendmentsOf(overdue, rows, tester_id) ==
    SelectSeq(overdue, LAMBDA id : rows[id].qa_assigned_id = Some(tester_id))

\* "for amendment in amendments: crud.create_notification(...)"
RECURSIVE CreateOverdue(_, _, _)
CreateOverdue(notes, tester_id, ids) ==
    IF ids = <<>> THEN notes
    ELSE CreateOverdue(create_notification(notes, tester_id, "Overdue",
                                           Head(ids), FALSE),
                       tester_id, Tail(ids))

\* the loop over the testers: a tester without an Employee row is skipped;
\* one notification per amendment, then one summary mail if the tester has
\* an address
RECURSIVE NotifyTesters(_, _, _, _, _, _, _)
NotifyTesters(testers, overdue, rows, notes, out, enabled, smtp_ok) ==
    IF testers = <<>> THEN [notifications |-> notes, outbox |-> out]
    ELSE LET tester_id == Head(testers)
             tester == get_employee(tester_id)
             created == CreateOverdue(notes, tester_id,
                                      AmendmentsOf(overdue, rows, tester_id))
         IN  IF tester = None
             THEN NotifyTesters(Tail(testers), overdue, rows, notes, out,
                                enabled, smtp_ok)
             ELSE NotifyTesters(
                     Tail(testers), overdue, rows, created,
                     IF HasEmail(tester)
                     THEN Append(out,
                                 [to |-> tester_id,
                                  committed |-> Len(created),
                                  sent |-> send_email(
                                      enabled,
                                      <<EmployeeEmail(tester_id)[1]>>,
                                      smtp_ok)])
                     ELSE out,
                     enabled, smtp_ok)

\* the tables after the run and the number the run returns
check_and_notify_overdue(rows, cols, notes, out, now, enabled, smtp_ok) ==
    LET overdue == check_overdue_qa(rows, cols, now)
        r == NotifyTesters(TestersOf(overdue, rows), overdue, rows, notes,
                           out, enabled, smtp_ok)
    IN  [returned |-> IF overdue = <<>> THEN 0
                      ELSE Len(r.notifications) - Len(notes),
         notifications |-> r.notifications, outbox |-> r.outbox]

CheckAndNotifyOverdue(now, enabled, smtp_ok) ==
    /\ response = NoResponse
    /\ LET r == check_and_notify_overdue(amendments, columns, notifications,
                                         outbox, now, enabled, smtp_ok)
       IN  /\ notifications' = r.notifications
           /\ outbox' = r.outbox
           /\ response' = [op |-> "check_and_notify_overdue", now |-> now,
                           result |-> r.returned]
    /\ UNCHANGED <<amendments, columns, aside, watchers, comments, mentions,
                   reactions, toggled, qa_history>>

InitSweep ==
    /\ amendments \in [SweepIds -> SweepRows]
    /\ columns \in [SweepIds -> SweepColumns]
    /\ response = NoResponse
    /\ NoRows
    /\ NoCalls

NextSweep ==
    \E now \in Clock : \E enabled \in BOOLEAN : \E smtp_ok \in BOOLEAN :
       CheckAndNotifyOverdue(now, enabled, smtp_ok)

SpecSweep == InitSweep /\ [][NextSweep]_vars

\* the due date of the amendment has passed at the time of the run
DueDatePassed(id) ==
    /\ columns[id].qa_due_date # None
    /\ columns[id].qa_due_date[1] < response.now

\* the Overdue notifications the run created for the amendment
OverdueFor(id) ==
    {i \in DOMAIN notifications :
        /\ notifications[i].notification_type = "Overdue"
        /\ notifications[i].amendment_id = id}

\* what the run reports and mails: the number of notifications it created,
\* and at most one summary mail per tester
ReportsAndMailsOnce ==
    /\ response.result = Len(notifications)
    /\ \A t \in TesterIds :
          Cardinality({i \in DOMAIN outbox : outbox[i].to = t}) <= 1

---------------------------------------------------------------------------
(* Defects and test executions: crud.create_defect, crud.update_defect,    *)
(* crud.create_test_execution and crud.execute_test, each of which commits *)
(* its row and then writes the audit trail with crud.create_qa_history     *)

\* QADefectUpdate.status is Optional[str] with max_length=50 and no
\* min_length: the empty string is a status a request can carry
DefectStatusInputs == {"", "New", "Resolved", "Closed"}

\* add, commit, refresh: the audit trail after the call
create_qa_history(table, amendment_id, action, field_name, old_value, new_value) ==
    Append(table,
           [history_id |-> NextId(table, "history_id"),
            amendment_id |-> amendment_id, action |-> action,
            field_name |-> field_name, old_value |-> old_value,
            new_value |-> new_value])

\* the row with that key, None when there is none
RowWith(table, key, value) ==
    First(table, {i \in DOMAIN table : table[i][key] = value})

\* POST /api/defects: the defect row, then the history entry
CreateDefect(amendment_id, status) ==
    /\ Len(defects) < MaxQARows
    /\ Len(qa_history) < MaxHistory
    /\ amendment_id \in DOMAIN amendments
    /\ defects' = Append(defects,
                         [defect_id |-> NextId(defects, "defect_id"),
                          amendment_id |-> amendment_id, status |-> status,
                          resolved_date |-> None, closed_date |-> None])
    /\ qa_history' = create_qa_history(qa_history, amendment_id,
                                       "Defect Created", None, None, None)
    /\ response' = [op |-> "create_defect",
                    defect_id |-> NextId(defects, "defect_id"),
                    status |-> 201]
    /\ UNCHANGED <<amendments, columns, inflight, executions, watchers,
                   comments, mentions, reactions, toggled, notifications,
                   outbox>>

\* the defect row after the loop over update_data: a status that differs
\* from the old one stamps resolved_date or closed_date
update_defect_row(defect, status, now) ==
    [defect EXCEPT
        !.status = status,
        !.resolved_date = IF status # defect.status /\ status = "Resolved"
                          THEN Some(now) ELSE @,
        !.closed_date = IF status # defect.status /\ status = "Closed"
                        THEN Some(now) ELSE @]

\* the audit trail after update_defect has committed the row: an entry when
\* "defect_update.status and defect_update.status != old_status"
update_defect_history(table, amendment_id, old_status, status) ==
    IF status # "" /\ status # old_status
    THEN create_qa_history(table, amendment_id, "Defect Status Changed",
                           Some("status"), Some(old_status), Some(status))
    ELSE table

\* PUT /api/defects/{id}: 404 without the row; a null status fails the
\* commit on the NOT NULL column and nothing is written
UpdateDefect(defect_id, update, now) ==
    /\ Len(qa_history) < MaxHistory
    /\ UNCHANGED <<amendments, columns, inflight, executions, watchers,
                   comments, mentions, reactions, toggled, notifications,
                   outbox>>
    /\ LET found == RowWith(defects, "defect_id", defect_id)
       IN  IF found = None
           THEN /\ response' = [op |-> "update_defect",
                                defect_id |-> defect_id, status |-> 404]
                /\ UNCHANGED <<defects, qa_history>>
           ELSE IF update = Some(None)
           THEN /\ response' = [op |-> "update_defect",
                                defect_id |-> defect_id, status |-> 500]
                /\ UNCHANGED <<defects, qa_history>>
           ELSE LET old_status == found[1].status
                    new_status == IF update = Unset THEN old_status
                                  ELSE update[1][1]
                IN  /\ defects' =
                          [i \in DOMAIN defects |->
                              IF defects[i].defect_id = defect_id
                              THEN update_defect_row(defects[i], new_status,
                                                     now)
                              ELSE defects[i]]
                    /\ qa_history' =
                          IF update = Unset THEN qa_history
                          ELSE update_defect_history(qa_history,
                                                     found[1].amendment_id,
                                                     old_status, new_status)
                    /\ response' = [op |-> "update_defect",
                                    defect_id |-> defect_id, status |-> 200]

\* POST /api/test-executions: the execution row, not yet run
CreateTestExecution(amendment_id) ==
    /\ Len(executions) < MaxQARows
    /\ amendment_id \in DOMAIN amendments
    /\ executions' =
          Append(executions,
                 [execution_id |-> NextId(executions, "execution_id"),
                  amendment_id |-> amendment_id,
                  execution_status |-> "Not Run"])
    /\ response' = [op |-> "create_test_execution",
                    execution_id |-> NextId(executions, "execution_id"),
                    status |-> 201]
    /\ UNCHANGED <<amendments, columns, inflight, defects, collab>>

\* POST /api/test-executions/{id}/execute: the result is committed, then the
\* history entry
ExecuteTest(execution_id, execution_status) ==
    /\ Len(qa_history) < MaxHistory
    /\ UNCHANGED <<amendments, columns, inflight, defects, watchers, comments,
                   mentions, reactions, toggled, notifications, outbox>>
    /\ LET found == RowWith(executions, "execution_id", execution_id)
       IN  IF found = None
           THEN /\ response' = [op |-> "execute_test",
                                execution_id |-> execution_id,
                                status |-> 404]
                /\ UNCHANGED <<executions, qa_history>>
           ELSE /\ executions' =
                      [i \in DOMAIN executions |->
                          IF executions[i].execution_id = execution_id
                          THEN [executions[i] EXCEPT
                                   !.execution_status = execution_status]
                          ELSE executions[i]]
                /\ qa_history' =
                      create_qa_history(qa_history, found[1].amendment_id,
                                        "Test Executed", None, None, None)
                /\ response' = [op |-> "execute_test",
                                execution_id |-> execution_id,
                                status |-> 200]

QARowIds == 1..MaxQARows

NextDefect ==
    \/ CreateAmendment
    \/ \E id \in AmendmentIds : \E status \in DefectStatusInputs \ {""} :
          CreateDefect(id, status)
    \/ \E d \in QARowIds :
          \E update \in {Unset} \cup {Some(v) : v \in Opt(DefectStatusInputs)} :
          UpdateDefect(d, update, 1)
    \/ \E id \in AmendmentIds : CreateTestExecution(id)
    \/ \E x \in QARowIds :
          \E status \in {"Passed", "Failed", "Blocked"} :
          ExecuteTest(x, status)

SpecDefect == Init /\ [][NextDefect]_vars

\* the history entries the step has added
AddedHistory == {i \in DOMAIN qa_history' : i \notin DOMAIN qa_history}

(* C28: every defect status change (update_defect to a different status)   *)
(* and every execute_test produces exactly one HistoryEntry on the owning  *)
(* amendment, the defect entry carrying the old and the new status;        *)
(* update_defect without a status change produces none; and no             *)
(* HistoryEntry exists without its field change having been stored.        *)
C28_DefectAndExecutionChangesAreAudited ==
    [][/\ (response'.op = "update_defect" /\ response'.status = 200)
             => LET before == RowWith(defects, "defect_id",
                                      response'.defect_id)[1]
                    after == RowWith(defects', "defect_id",
                                     response'.defect_id)[1]
                IN  IF after.status # before.status
                    THEN /\ Cardinality(AddedHistory) = 1
                         /\ \A i \in AddedHistory :
                               /\ qa_history'[i].amendment_id
                                     = after.amendment_id
                               /\ qa_history'[i].old_value
                                     = Some(before.status)
                               /\ qa_history'[i].new_value
                                     = Some(after.status)
                    ELSE AddedHistory = {}
       /\ (response'.op = "execute_test" /\ response'.status = 200)
             => /\ Cardinality(AddedHistory) = 1
                /\ \A i \in AddedHistory :
                      /\ qa_history'[i].action = "Test Executed"
                      /\ qa_history'[i].amendment_id =
                            RowWith(executions', "execution_id",
                                    response'.execution_id)[1].amendment_id
       /\ \A i \in AddedHistory :
             qa_history'[i].action = "Defect Status Changed"
                => \E j \in DOMAIN defects' :
                      /\ Some(defects'[j].status) = qa_history'[i].new_value
                      /\ Some(defects[j].status) = qa_history'[i].old_value
       /\ SubSeq(qa_history', 1, Len(qa_history)) = qa_history]_vars

---------------------------------------------------------------------------
(* Reading notifications: PATCH /api/notifications/{id}/read               *)

\* crud.mark_notification_read: the table after the call and the row it
\* returns (None when the key has no row)
mark_notification_read(table, notification_id, now) ==
    LET S == {i \in DOMAIN table : table[i].notification_id = notification_id}
    IN  IF S = {}
        THEN [table |-> table, notification |-> None]
        ELSE LET i == FirstIndex(S)
                 after == [table EXCEPT ![i].is_read = TRUE,
                                        ![i].read_on = Some(now)]
             IN  [table |-> after, notification |-> Some(after[i])]

\* the endpoint: the crud call, which commits, and then the check that the
\* notification belongs to the current user
MarkNotificationRead(notification_id, current_user, now) ==
    /\ LET r == mark_notification_read(notifications, notification_id, now)
       IN  /\ notifications' = r.table
           /\ response' =
                 [op |-> "mark_notification_read",
                  notification_id |-> notification_id,
                  current_user |-> current_user,
                  status |-> IF r.notification = None THEN 404
                             ELSE IF r.notification[1].employee_id
                                        # current_user
                             THEN 403
                             ELSE 200]
    /\ UNCHANGED <<amendments, columns, aside, watchers, comments, mentions,
                   reactions, toggled, qa_history, outbox>>

NextRead ==
    \/ CreateAmendment
    \/ \E id \in AmendmentIds : \E e \in EmployeeIds :
          NotifyQAAssigned(id, e, FALSE, FALSE)
    \/ \E n \in 1..MaxNotifications : \E e \in EmployeeIds : \E now \in Clock :
          MarkNotificationRead(n, e, now)

SpecRead == Init /\ [][NextRead]_vars

(* C29: a mark-as-read request by a collaborator who is not the recipient  *)
(* of the notification is rejected as not authorized and leaves the read   *)
(* flag and the read timestamp of the notification unchanged; only the     *)
(* recipient's request sets them.                                          *)
C29_OnlyRecipientMarksRead ==
    [][response'.op = "mark_notification_read"
          => \A i \in DOMAIN notifications :
                notifications[i].notification_id = response'.notification_id
                   => IF notifications[i].employee_id = response'.current_user
                      THEN /\ response'.status = 200
                           /\ notifications'[i].is_read
                           /\ notifications'[i].read_on # None
                      ELSE /\ response'.status = 403
                           /\ notifications'[i].is_read
                                 = notifications[i].is_read
                           /\ notifications'[i].read_on
                                 = notifications[i].read_on]_vars

----------------------------------------------------------------------------
(* Walks through the workflow: a status is written only after the          *)
(* validator has accepted the change, the other QA fields are written by   *)
(* the QA update path, and the table is read through                       *)
(* get_next_allowed_statuses                                               *)

get_next_allowed_statuses(current_status) ==
    IF ~IsQAStatus(current_status)
    THEN <<>>                                    \* except ValueError
    ELSE IF current_status \in DOMAIN VALID_TRANSITIONS
         THEN VALID_TRANSITIONS[current_status]
         ELSE <<>>

\* a status change the validator accepts, written by the QA update path
ValidatedStatusChange(id, new_status, now) ==
    /\ id \in DOMAIN amendments
    /\ LET v == validate_transition(amendments[id], new_status) IN
          ~v.raised /\ v.is_valid
    /\ LET data == CHOOSE d \in StatusOnlyUpdates :
                          d.qa_status = Some(new_status)
           r == update_amendment_qa(amendments, columns, id, {"qa_status"},
                                    data, None, Unset, now)
       IN  /\ amendments' = r.rows
           /\ columns' = r.columns
           /\ response' = [op |-> "validated_status_change",
                           amendment_id |-> id,
                           old_status |-> amendments[id].qa_status,
                           new_status |-> new_status,
                           status |-> StatusOf(r)]
    /\ UNCHANGED <<collab, aside>>

GetAllowedQAStatuses(current_status) ==
    /\ response' = [op |-> "get_allowed_qa_statuses",
                    current_status |-> current_status,
                    result |-> get_next_allowed_statuses(current_status)]
    /\ UNCHANGED <<amendments, columns, collab, aside>>

\* what a walk writes into the fields the gates read: a tester and the two
\* dates set or cleared, a checklist item ticked or not, a text written or
\* cleared
WalkUpdates(F) ==
    {d \in QAUpdates(F) :
        /\ d.qa_assigned_id \in {None, Some(1)}
        /\ d.qa_assigned_date \in {None, Some(1)}
        /\ d.qa_started_date \in {None, Some(1)}
        /\ "qa_test_plan_check" \in F => d.qa_test_plan_check # None
        /\ "qa_test_release_notes_check" \in F
              => d.qa_test_release_notes_check # None
        /\ d.qa_notes \in {None, Some(<<"x">>)}
        /\ d.qa_blocked_reason \in {None, Some(<<"x">>)}}

NextWalk ==
    \/ CreateAmendment
    \/ \E id \in AmendmentIds :
          \E F \in {G \in FieldSets : "qa_status" \notin G} :
          \E data \in WalkUpdates(F) :
             UpdateAmendmentQA(id, F, data, None, Unset, 1)
    \/ \E id \in AmendmentIds : \E to \in StatusInputs :
          ValidatedStatusChange(id, to, 1)
    \/ \E s \in StatusInputs : GetAllowedQAStatuses(s)

SpecWalk == Init /\ [][NextWalk]_vars

StatusIs(id, s) == id \in DOMAIN amendments /\ amendments[id].qa_status = s

HasLeft(id, s) == id \in DOMAIN amendments /\ amendments[id].qa_status # s

\* once the amendment has had the status and left it, it never has it again
NeverReturnsTo(s) ==
    \A id \in AmendmentIds :
       [](StatusIs(id, s) => [](HasLeft(id, s) => []HasLeft(id, s)))

\* what the table answers for a status
AnswersFor(s) ==
    response.op = "get_allowed_qa_statuses" /\ response.current_status = s

(* C30: in any sequence of status changes each accepted by                 *)
(* validate_transition, starting from Not Started: once an amendment has   *)
(* left Not Started it never returns to Not Started, once it has left      *)
(* Assigned it never returns to Assigned, no status is a dead end (for     *)
(* every status the table allows at least one other status next), and from *)
(* each of Blocked, Passed and Failed the status In Testing is allowed     *)
(* next.                                                                   *)
C30_WorkflowNeverReturnsAndHasNoDeadEnd ==
    /\ NeverReturnsTo("Not Started")
    /\ NeverReturnsTo("Assigned")
    /\ [](\A s \in QAStatusValues :
             AnswersFor(s)
                => /\ \E i \in DOMAIN response.result : response.result[i] # s
                   /\ s \in {"Blocked", "Passed", "Failed"}
                         => \E i \in DOMAIN response.result :
                               response.result[i] = "In Testing")

\* a re-test: an amendment that had passed is back In Testing
C30_Witness ==
    /\ response.op = "validated_status_change"
    /\ response.old_status = "Passed"
    /\ StatusIs(1, "In Testing")

====
